---- MODULE Spec2Model ----
(***************************************************************************)
(* A model of the monty-rb native extension (ext/monty/src): the value     *)
(* bridge between Ruby values and MontyObject (monty_object.rs), the error *)
(* constructors (errors.rs), the limits parser (resource_limits.rs), the   *)
(* Run session (monty_run.rs) and the FunctionCall / PendingFutures /      *)
(* Complete progress objects (run_progress.rs).                            *)
(*                                                                         *)
(* Values are tagged tuples <<tag, payload...>>.  A Ruby value carries its *)
(* class name as tag; a MontyObject carries its variant name.  Text is a   *)
(* sequence of one-character strings, so that to_s / parse / to_i are      *)
(* computed and not assumed.  An Integer is <<negative, digits>> with the  *)
(* decimal digits most significant first, so that the signed 64-bit        *)
(* boundary keeps its real place.                                          *)
(***************************************************************************)
EXTENDS Integers, Sequences, FiniteSets, TLC

VARIABLES
    inner,      \* Run.inner of each session: "Absent" (no such object yet), "Some", "None"
    prog,       \* the compiled program each session's MontyRun holds (index into Programs)
    objs,       \* the progress objects handed to the host, in creation order
    runText,    \* per session, the text its interruptible run has printed so far
    started,    \* per session, whether start has been called on it
    blobs,      \* byte strings returned by dump and held by the host
    last,       \* the last host call and what it returned
    hist,       \* per session, the calls logged on it and on its suspensions, with their results
    attempts,   \* per thread, the resume it is in the middle of, if any
    bdir,       \* value bridge: direction of the round trip being computed
    bin,        \* value bridge: the input value
    bmid,       \* value bridge: result of the first conversion
    bout,       \* value bridge: result of the second conversion
    bstage,     \* value bridge: conversions applied so far
    bthread     \* value bridge: the thread the conversion runs on

vars == <<inner, prog, objs, runText, started, blobs, last, hist, attempts, bdir, bin, bmid, bout, bstage, bthread>>

protoVars == <<inner, prog, objs, runText, started, blobs, last, hist, attempts>>
bridgeVars == <<bdir, bin, bmid, bout, bstage, bthread>>

-----------------------------------------------------------------------------
(* Results of fallible functions: Result<T, magnus::Error>.                *)

Ok(v) == <<"Ok", v>>
Err(class, msg) == <<"Err", class, msg>>
IsOk(r) == r[1] = "Ok"
IsErr(r) == r[1] = "Err"
ErrClass(r) == r[2]

Some(v) == <<"Some", v>>
NoneOpt == <<"None">>

-----------------------------------------------------------------------------
(* Threads and the exception classes.  errors.rs keeps the four classes in *)
(* thread_local cells that define_exceptions fills on the thread that      *)
(* loads the extension; on every other thread the cells hold None.         *)

LoaderThread == "loader"
Threads == {"loader", "other"}

ClassCell(t, name) == IF t = LoaderThread THEN Some(name) ELSE NoneOpt

ErrorIn(t, name, msg) ==
    LET cell == ClassCell(t, name)
    IN  IF cell # NoneOpt THEN Err(cell[2], msg) ELSE Err("RuntimeError", msg)

monty_error(t, msg) == ErrorIn(t, "Monty::Error", msg)
syntax_error(t, msg) == ErrorIn(t, "Monty::SyntaxError", msg)
resource_error(t, msg) == ErrorIn(t, "Monty::ResourceError", msg)
consumed_error(t) == ErrorIn(t, "Monty::ConsumedError", <<"text", "consumed">>)

\* Module#define_error(name, superclass): the superclass chain of each class.
Superclass(c) ==
    CASE c = "Monty::Error" -> "StandardError"
      [] c = "Monty::SyntaxError" -> "Monty::Error"
      [] c = "Monty::ResourceError" -> "Monty::Error"
      [] c = "Monty::ConsumedError" -> "Monty::Error"
      [] OTHER -> "StandardError"

\* A MontyException is <<exc_type, summary>>.
map_monty_exception(t, exc) ==
    IF exc[1] = "SyntaxError" THEN syntax_error(t, exc[2]) ELSE monty_error(t, exc[2])

\* A monty::ResourceError is <<"Allocation", limit, count>>, <<"Time", ..>>,
\* <<"Memory", ..>>, <<"Recursion", ..>> or <<"Exception", exc>>.
map_resource_error(t, err) ==
    IF err[1] = "Exception" THEN map_monty_exception(t, err[2])
    ELSE resource_error(t, <<"limit", err[1], err[2], err[3]>>)

-----------------------------------------------------------------------------
(* Integers and their decimal text.                                        *)

DigitChar == <<"0", "1", "2", "3", "4", "5", "6", "7", "8", "9">>
IsDigitChar(c) == \E d \in 0..9 : DigitChar[d + 1] = c
CharDigit(c) == CHOOSE d \in 0..9 : DigitChar[d + 1] = c

I64MaxMag == <<9,2,2,3,3,7,2,0,3,6,8,5,4,7,7,5,8,0,7>>
I64MinMag == <<9,2,2,3,3,7,2,0,3,6,8,5,4,7,7,5,8,0,8>>

MagLeq(a, b) ==
    \/ Len(a) < Len(b)
    \/ /\ Len(a) = Len(b)
       /\ \/ a = b
          \/ \E i \in 1..Len(a) :
                /\ \A j \in 1..(i - 1) : a[j] = b[j]
                /\ a[i] < b[i]

\* A range that is symmetric around zero: -2^63 is left out.
FitsI64Symmetric(n) == MagLeq(n[2], I64MaxMag)

\* i64::try_convert succeeds exactly on -2^63 .. 2^63-1.
FitsI64(n) == IF n[1] THEN MagLeq(n[2], I64MinMag) ELSE MagLeq(n[2], I64MaxMag)

\* Integer#to_s and BigInt::to_string: optional minus sign, then the digits.
IntToS(n) ==
    (IF n[1] THEN <<"-">> ELSE <<>>) \o [i \in 1..Len(n[2]) |-> DigitChar[n[2][i]+1]]

RECURSIVE StripZeros(_)
StripZeros(d) ==
    IF Len(d) > 1 /\ d[1] = 0 THEN StripZeros(Tail(d)) ELSE d

Normal(neg, d) ==
    LET m == StripZeros(d) IN <<neg /\ m # <<0>>, m>>

\* str::parse::<BigInt>: an optional sign and at least one digit, nothing else.
ParseBigInt(s) ==
    LET neg == Len(s) > 0 /\ s[1] = "-"
        body == IF Len(s) > 0 /\ s[1] \in {"-", "+"} THEN Tail(s) ELSE s
    IN  IF Len(body) > 0 /\ \A i \in 1..Len(body) : IsDigitChar(body[i])
        THEN Ok(Normal(neg, [i \in 1..Len(body) |-> CharDigit(body[i])]))
        ELSE Err("ArgumentError", <<"text", "invalid integer">>)

RECURSIVE DigitPrefix(_)
DigitPrefix(s) ==
    IF Len(s) > 0 /\ IsDigitChar(s[1])
    THEN <<CharDigit(s[1])>> \o DigitPrefix(Tail(s))
    ELSE <<>>

\* String#to_i: an optional sign, the longest run of digits, 0 when there is none.
StrToI(s) ==
    LET neg == Len(s) > 0 /\ s[1] = "-"
        body == IF Len(s) > 0 /\ s[1] \in {"-", "+"} THEN Tail(s) ELSE s
        d == DigitPrefix(body)
    IN  IF d = <<>> THEN <<FALSE, <<0>>>> ELSE Normal(neg, d)

-----------------------------------------------------------------------------
(* Ruby values: <<"NilClass">>, <<"TrueClass">>, <<"FalseClass">>,         *)
(* <<"Integer", n>>, <<"Float", f>>, <<"String", chars, encoding>>,        *)
(* <<"Symbol", chars>>, <<"Array", items, frozen>>, <<"Hash", pairs>>,     *)
(* <<"Object">>, <<"Object", name>>.  A Hash keeps its pairs in insertion  *)
(* order.                                                                  *)

RNil == <<"NilClass">>
RTrue == <<"TrueClass">>
RFalse == <<"FalseClass">>
RInt(n) == <<"Integer", n>>
RFloat(f) == <<"Float", f>>
RStr(s) == <<"String", s, "UTF-8">>
RBin(s) == <<"String", s, "ASCII-8BIT">>
RSym(s) == <<"Symbol", s>>
RAry(items) == <<"Array", items, FALSE>>
RFrozenAry(items) == <<"Array", items, TRUE>>
RHashOf(pairs) == <<"Hash", pairs>>
RObject == <<"Object">>
\* An object of no supported class whose class answers name to Class#name.
RNamed(name) == <<"Object", name>>

\* A byte that is no ASCII and no UTF-8 text.
HighByte == "\\xFF"

is_nil(val) == val[1] = "NilClass"
is_kind_of(val, class) == val[1] = class

\* Object#== on the values of the model: freezing an Array does not change
\* it, and two Strings of the same ASCII text are equal whatever their encoding.
RECURSIVE Thaw(_)
Thaw(val) ==
    CASE val[1] = "String" ->
            IF \E i \in 1..Len(val[2]) : val[2][i] = HighByte THEN val
            ELSE <<"String", val[2], "UTF-8">>
      [] val[1] = "Array" -> <<"Array", [i \in 1..Len(val[2]) |-> Thaw(val[2][i])], FALSE>>
      [] val[1] = "Hash" ->
            <<"Hash", [i \in 1..Len(val[2]) |-> <<Thaw(val[2][i][1]), Thaw(val[2][i][2])>>]>>
      [] OTHER -> val

HostEq(a, b) == Thaw(a) = Thaw(b)

\* Hash#[]=: a key equal to one already present replaces that entry's value
\* in place, a new key is appended.
aset(pairs, k, v) ==
    IF \E i \in 1..Len(pairs) : HostEq(pairs[i][1], k)
    THEN [i \in 1..Len(pairs) |-> IF HostEq(pairs[i][1], k) THEN <<pairs[i][1], v>> ELSE pairs[i]]
    ELSE Append(pairs, <<k, v>>)

\* Hash#[]: the value under the key, nil when there is none.
aref(pairs, k) ==
    IF \E i \in 1..Len(pairs) : HostEq(pairs[i][1], k)
    THEN pairs[CHOOSE i \in 1..Len(pairs) : HostEq(pairs[i][1], k)][2]
    ELSE RNil

\* String::try_convert: the text as UTF-8; a byte that is no UTF-8 text fails.
StringTryConvert(val) ==
    IF \E i \in 1..Len(val[2]) : val[2][i] = HighByte
    THEN Err("EncodingError", <<"text", "invalid byte sequence in UTF-8">>)
    ELSE Ok(val[2])

-----------------------------------------------------------------------------
(* MontyObject: <<"None">>, <<"Bool", b>>, <<"Int", n>>, <<"BigInt", n>>,  *)
(* <<"Float", f>>, <<"String", s>>, <<"Bytes", b>>, <<"List", items>>,     *)
(* <<"Tuple", items>>, <<"NamedTuple", field_names, values>>,              *)
(* <<"Dict", pairs>>, <<"Set", items>>, <<"FrozenSet", items>>,            *)
(* <<"Dataclass", name, attrs>>, <<"Ellipsis">>, <<"Type", t>>,            *)
(* <<"BuiltinFunction", f>>, <<"Path", s>>, <<"Repr", s>>,                 *)
(* <<"Cycle", id, s>>, <<"Exception", exc_type, arg>>.                     *)

MNone == <<"None">>
MBool(b) == <<"Bool", b>>
MInt(n) == <<"Int", n>>
MBigInt(n) == <<"BigInt", n>>
MFloat(f) == <<"Float", f>>
MString(s) == <<"String", s>>
MBytes(b) == <<"Bytes", b>>
MList(items) == <<"List", items>>
MTuple(items) == <<"Tuple", items>>
MNamedTuple(names, values) == <<"NamedTuple", names, values>>
MDict(pairs) == <<"Dict", pairs>>
MSet(items) == <<"Set", items>>
MFrozenSet(items) == <<"FrozenSet", items>>
MDataclass(name, attrs) == <<"Dataclass", name, attrs>>
MEllipsis == <<"Ellipsis">>
MType(t) == <<"Type", t>>
MBuiltinFunction(f) == <<"BuiltinFunction", f>>
MPath(s) == <<"Path", s>>
MRepr(s) == <<"Repr", s>>
MCycle(id, s) == <<"Cycle", id, s>>
MException(exc_type, arg) == <<"Exception", exc_type, arg>>

-----------------------------------------------------------------------------
(* monty_object.rs: Ruby value -> MontyObject.                             *)

\* detect_bool by truthiness: everything but nil and false counts as true.
detect_bool_truthy(val) ==
    IF val[1] \in {"NilClass", "FalseClass"} THEN Some(FALSE) ELSE Some(TRUE)

\* val.funcall("class").funcall("name"): the name the value's class answers
\* with, which for an object is whatever its class and name methods give.
class_name(val) == IF val[1] = "Object" /\ Len(val) = 2 THEN val[2] ELSE val[1]

\* detect_bool: the class name decides, TrueClass and FalseClass only.
detect_bool(val) ==
    CASE class_name(val) = "TrueClass" -> Some(TRUE)
      [] class_name(val) = "FalseClass" -> Some(FALSE)
      [] OTHER -> NoneOpt

\* The Integer branch without the i64 fast path.
r2m_integer_always_big(val) ==
    LET big == ParseBigInt(IntToS(val[2]))
    IN  IF IsErr(big) THEN big ELSE Ok(MBigInt(big[2]))

\* The Integer branch: i64 first, otherwise through to_s and parse::<BigInt>.
r2m_integer(val) ==
    IF FitsI64(val[2]) THEN Ok(MInt(val[2]))
    ELSE LET big == ParseBigInt(IntToS(val[2]))
         IN  IF IsErr(big) THEN big ELSE Ok(MBigInt(big[2]))

\* The String branch.
r2m_string(val) ==
    LET s == StringTryConvert(val) IN IF IsErr(s) THEN s ELSE Ok(MString(s[2]))

\* The Symbol branch: Symbol#to_s.
r2m_symbol(val) == Ok(MString(val[2]))

\* The final Err: no rule applies.
r2m_unsupported(val) == Err("TypeError", <<"cannot convert", val[1]>>)

RECURSIVE ruby_to_monty(_)
RECURSIVE r2m_items(_)
RECURSIVE hash_to_pairs_from(_, _)

\* The element loops of the Array branch and of ruby_array_to_monty_vec:
\* the first element that fails ends the conversion with its error.
r2m_items(items) ==
    IF items = <<>> THEN Ok(<<>>)
    ELSE LET h == ruby_to_monty(Head(items))
         IN  IF IsErr(h) THEN h
             ELSE LET r == r2m_items(Tail(items))
                  IN  IF IsErr(r) THEN r ELSE Ok(<<h[2]>> \o r[2])

\* hash_to_pairs' loop over hash.keys: the key is converted before the value.
hash_to_pairs_from(hash, keys) ==
    IF keys = <<>> THEN Ok(<<>>)
    ELSE LET key == Head(keys)
             val == aref(hash, key)
             k == ruby_to_monty(key)
         IN  IF IsErr(k) THEN k
             ELSE LET v == ruby_to_monty(val)
                  IN  IF IsErr(v) THEN v
                      ELSE LET r == hash_to_pairs_from(hash, Tail(keys))
                           IN  IF IsErr(r) THEN r ELSE Ok(<<<<k[2], v[2]>>>> \o r[2])

hash_to_pairs(hash) ==
    hash_to_pairs_from(hash, [i \in 1..Len(hash) |-> hash[i][1]])

ruby_to_monty(val) ==
    IF is_nil(val) THEN Ok(MNone)
    ELSE IF detect_bool(val) # NoneOpt THEN Ok(MBool(detect_bool(val)[2]))
    ELSE IF is_kind_of(val, "Integer") THEN r2m_integer(val)
    ELSE IF is_kind_of(val, "Float") THEN Ok(MFloat(val[2]))
    ELSE IF is_kind_of(val, "String") THEN r2m_string(val)
    ELSE IF is_kind_of(val, "Symbol") THEN r2m_symbol(val)
    ELSE IF is_kind_of(val, "Array") THEN
        LET items == r2m_items(val[2])
        IN  IF IsErr(items) THEN items ELSE Ok(MList(items[2]))
    ELSE IF is_kind_of(val, "Hash") THEN
        LET pairs == hash_to_pairs(val[2])
        IN  IF IsErr(pairs) THEN pairs ELSE Ok(MDict(pairs[2]))
    ELSE r2m_unsupported(val)

ruby_array_to_monty_vec(arr) == r2m_items(arr)

-----------------------------------------------------------------------------
(* monty_object.rs: MontyObject -> Ruby value, on thread t.                *)

m2r_bool(b) == IF b THEN RTrue ELSE RFalse

\* BigInt: to_string, then String#to_i.
m2r_bigint(bi) == RInt(StrToI(IntToS(bi)))

\* Bytes: the bytes as a String forced to ASCII-8BIT.
m2r_bytes(b) == RBin(b)

\* Tuple: the elements in an Array, then freeze.
m2r_tuple(items) == RFrozenAry(items)

\* Set and FrozenSet: the elements in an Array.
m2r_set(items) == RAry(items)

m2r_ellipsis == RSym(<<"e", "l", "l", "i", "p", "s", "i", "s">>)

\* An Exception handed to the host as the String of its message.
m2r_exception_as_string(t, exc_type, arg) == Ok(RStr(IF arg # NoneOpt THEN arg[2] ELSE <<>>))

\* Exception: the argument, or the type's debug text when there is none.
m2r_exception(t, exc_type, arg) ==
    monty_error(t, IF arg # NoneOpt THEN <<"chars", arg[2]>> ELSE <<"debug", exc_type>>)

RECURSIVE monty_to_ruby(_, _)
RECURSIVE m2r_items(_, _)
RECURSIVE m2r_pairs(_, _, _)
RECURSIVE m2r_fields(_, _, _, _)

\* for item in items { arr.push(monty_to_ruby(item)?) }
m2r_items(t, items) ==
    IF items = <<>> THEN Ok(<<>>)
    ELSE LET h == monty_to_ruby(t, Head(items))
         IN  IF IsErr(h) THEN h
             ELSE LET r == m2r_items(t, Tail(items))
                  IN  IF IsErr(r) THEN r ELSE Ok(<<h[2]>> \o r[2])

\* for (k, v) in pairs { hash.aset(monty_to_ruby(k)?, monty_to_ruby(v)?) }
m2r_pairs(t, pairs, hash) ==
    IF pairs = <<>> THEN Ok(hash)
    ELSE LET k == monty_to_ruby(t, Head(pairs)[1])
         IN  IF IsErr(k) THEN k
             ELSE LET v == monty_to_ruby(t, Head(pairs)[2])
                  IN  IF IsErr(v) THEN v
                      ELSE m2r_pairs(t, Tail(pairs), aset(hash, k[2], v[2]))

\* for (name, value) in field_names.zip(values) { hash.aset(str_new(name), ..) }
m2r_fields(t, names, values, hash) ==
    IF names = <<>> \/ values = <<>> THEN Ok(hash)
    ELSE LET v == monty_to_ruby(t, Head(values))
         IN  IF IsErr(v) THEN v
             ELSE m2r_fields(t, Tail(names), Tail(values), aset(hash, RStr(Head(names)), v[2]))

monty_to_ruby(t, obj) ==
    CASE obj[1] = "None" -> Ok(RNil)
      [] obj[1] = "Bool" -> Ok(m2r_bool(obj[2]))
      [] obj[1] = "Int" -> Ok(RInt(obj[2]))
      [] obj[1] = "BigInt" -> Ok(m2r_bigint(obj[2]))
      [] obj[1] = "Float" -> Ok(RFloat(obj[2]))
      [] obj[1] = "String" -> Ok(RStr(obj[2]))
      [] obj[1] = "Bytes" -> Ok(m2r_bytes(obj[2]))
      [] obj[1] = "List" ->
            LET items == m2r_items(t, obj[2])
            IN  IF IsErr(items) THEN items ELSE Ok(RAry(items[2]))
      [] obj[1] = "Tuple" ->
            LET items == m2r_items(t, obj[2])
            IN  IF IsErr(items) THEN items ELSE Ok(m2r_tuple(items[2]))
      [] obj[1] = "NamedTuple" ->
            LET hash == m2r_fields(t, obj[2], obj[3], <<>>)
            IN  IF IsErr(hash) THEN hash ELSE Ok(RHashOf(hash[2]))
      [] obj[1] = "Dict" ->
            LET hash == m2r_pairs(t, obj[2], <<>>)
            IN  IF IsErr(hash) THEN hash ELSE Ok(RHashOf(hash[2]))
      [] obj[1] \in {"Set", "FrozenSet"} ->
            LET items == m2r_items(t, obj[2])
            IN  IF IsErr(items) THEN items ELSE Ok(m2r_set(items[2]))
      [] obj[1] = "Dataclass" ->
            LET hash == m2r_pairs(t, obj[3], <<>>)
            IN  IF IsErr(hash) THEN hash ELSE Ok(RHashOf(hash[2]))
      [] obj[1] = "Ellipsis" -> Ok(m2r_ellipsis)
      [] obj[1] = "Type" -> Ok(RStr(obj[2]))
      [] obj[1] = "BuiltinFunction" -> Ok(RStr(obj[2]))
      [] obj[1] = "Path" -> Ok(RStr(obj[2]))
      [] obj[1] = "Repr" -> Ok(RStr(obj[2]))
      [] obj[1] = "Cycle" -> Ok(RStr(obj[3]))
      [] obj[1] = "Exception" -> m2r_exception(t, obj[2], obj[3])

-----------------------------------------------------------------------------
(* The values the round trips are computed on.                             *)

MaxItems == 2

I64Max == <<FALSE, I64MaxMag>>
I64Min == <<TRUE, I64MinMag>>
I64MaxPlus1 == <<FALSE, I64MinMag>>
I64MinMinus1 == <<TRUE, <<9,2,2,3,3,7,2,0,3,6,8,5,4,7,7,5,8,0,9>>>>
TwoPow100 == <<FALSE, <<1,2,6,7,6,5,0,6,0,0,2,2,8,2,2,9,4,0,1,4,9,6,7,0,3,2,0,5,3,7,6>>>>
Zero == <<FALSE, <<0>>>>
One == <<FALSE, <<1>>>>
MinusOne == <<TRUE, <<1>>>>

SmallInts == {Zero, One, MinusOne, <<FALSE, <<4, 2>>>>}
EdgeInts == {I64Max, I64Min}
BigInts == {I64MaxPlus1, I64MinMinus1, TwoPow100}

Texts == {<<>>, <<"a">>, <<"1">>, <<"a", "b">>}
Floats == {"0.0", "1.5", "NaN"}

SeqsUpTo(S, n) == UNION {[1..k -> S] : k \in 0..n}

DistinctKeys(pairs) ==
    \A i, j \in 1..Len(pairs) : i # j => pairs[i][1] # pairs[j][1]

PairsUpTo(K, V, n) == {p \in SeqsUpTo(K \X V, n) : DistinctKeys(p)}

HostScalars ==
    {RNil, RTrue, RFalse, RObject, RNamed("TrueClass"), RNamed("FalseClass")}
    \cup {RInt(n) : n \in SmallInts \cup EdgeInts \cup BigInts}
    \cup {RFloat(f) : f \in Floats}
    \cup {RStr(s) : s \in Texts}
    \cup {RSym(s) : s \in {<<"a">>, <<"b">>}}
    \cup {RBin(<<"a">>), RBin(<<HighByte>>)}

HostElems ==
    {RNil, RFalse, RInt(One), RInt(TwoPow100), RStr(<<"a">>), RSym(<<"a">>), RObject,
     RNamed("TrueClass")}
HostKeys == {RStr(<<"a">>), RSym(<<"a">>), RInt(One), RFloat("1.5")}

HostLevel1 ==
    {RAry(items) : items \in SeqsUpTo(HostElems, MaxItems)}
    \cup {RFrozenAry(items) : items \in SeqsUpTo({RInt(One), RSym(<<"a">>)}, MaxItems)}
    \cup {RHashOf(pairs) : pairs \in PairsUpTo(HostKeys, HostElems, MaxItems)}

HostNested ==
    {RAry(<<x>>) : x \in HostLevel1}
    \cup {RAry(<<RInt(One), x>>) : x \in HostLevel1}
    \cup {RHashOf(<<<<RStr(<<"a">>), x>>>>) : x \in HostLevel1}
    \cup {RHashOf(<<<<RAry(<<RInt(One)>>), RSym(<<"b">>)>>, <<RStr(<<"k">>), x>>>>) :
            x \in {RTrue, RAry(<<RObject>>)}}

HostInputs == HostScalars \cup HostLevel1 \cup HostNested

MontyScalars ==
    {MNone, MBool(TRUE), MBool(FALSE), MEllipsis}
    \cup {MInt(n) : n \in SmallInts \cup EdgeInts}
    \cup {MBigInt(n) : n \in BigInts \cup {One}}
    \cup {MFloat(f) : f \in Floats}
    \cup {MString(s) : s \in Texts}
    \cup {MBytes(<<"a">>), MBytes(<<HighByte>>), MPath(<<"a">>)}
    \cup {MType(<<"I", "n", "t">>), MBuiltinFunction(<<"L", "e", "n">>),
          MRepr(<<"a">>), MCycle(1, <<"a">>)}
    \cup {MException("ValueError", Some(<<"a">>)), MException("ValueError", NoneOpt)}

MontyElems ==
    {MNone, MInt(One), MBigInt(TwoPow100), MString(<<"a">>), MTuple(<<>>),
     MException("ValueError", NoneOpt)}
MontyKeys == {MString(<<"a">>), MBytes(<<"a">>), MInt(One), MNone, MTuple(<<MInt(One)>>)}

MontyLevel1 ==
    {<<tag, items>> : tag \in {"List", "Tuple", "Set", "FrozenSet"},
                      items \in SeqsUpTo(MontyElems, MaxItems)}
    \cup {MDict(pairs) : pairs \in PairsUpTo(MontyKeys, MontyElems, MaxItems)}
    \cup {MDataclass("P", pairs) : pairs \in PairsUpTo({MString(<<"a">>), MString(<<"b">>)},
                                                       {MInt(One), MNone}, MaxItems)}
    \cup {MNamedTuple(names, values) :
            names \in {<<>>, <<<<"a">>>>, <<<<"a">>, <<"b">>>>},
            values \in SeqsUpTo({MInt(One), MNone}, MaxItems)}

MontyNested ==
    {MList(<<x>>) : x \in MontyLevel1}
    \cup {MDict(<<<<MString(<<"a">>), x>>>>) : x \in MontyLevel1}

MontyInputs == MontyScalars \cup MontyLevel1 \cup MontyNested

BridgeIdle == <<"idle">>

-----------------------------------------------------------------------------
(* The round trips, one conversion per step.                               *)

BridgeFirst ==
    /\ bstage = 0
    /\ bmid' = IF bdir = "host" THEN ruby_to_monty(bin) ELSE monty_to_ruby(bthread, bin)
    /\ bstage' = 1
    /\ UNCHANGED <<bdir, bin, bout, bthread, protoVars>>

BridgeSecond ==
    /\ bstage = 1
    /\ IsOk(bmid)
    /\ bout' = IF bdir = "host" THEN monty_to_ruby(bthread, bmid[2]) ELSE ruby_to_monty(bmid[2])
    /\ bstage' = 2
    /\ UNCHANGED <<bdir, bin, bmid, bthread, protoVars>>

-----------------------------------------------------------------------------
(* resource_limits.rs: the limits hash -> monty::ResourceLimits.           *)
(* ResourceLimits is <<max_allocations, max_duration, max_memory,          *)
(* gc_interval, max_recursion_depth>>, each Some(value) or None.           *)

U64MaxMag == <<1,8,4,4,6,7,4,4,0,7,3,7,0,9,5,5,1,6,1,5>>

\* usize::try_convert: a non-negative Integer that fits the machine word.
UsizeTryConvert(val) ==
    IF val[1] # "Integer" THEN Err("TypeError", <<"text", "no implicit conversion into Integer">>)
    ELSE IF val[2][1] \/ ~MagLeq(val[2][2], U64MaxMag)
         THEN Err("RangeError", <<"text", "out of range for usize">>)
         ELSE Ok(val[2][2])

\* An f64 is <<sign, magnitude>>: sign is "+", "-" or "nan".
NegativeFloats == {"-1.5"}
F64OfFloat(f) ==
    <<IF f = "NaN" THEN "nan" ELSE IF f \in NegativeFloats THEN "-" ELSE "+", f>>
F64OfInteger(n) == <<IF n[1] THEN "-" ELSE "+", n[2]>>

\* f64::try_convert: a Float, or an Integer as a Float.
F64TryConvert(val) ==
    CASE val[1] = "Float" -> Ok(F64OfFloat(val[2]))
      [] val[1] = "Integer" -> Ok(F64OfInteger(val[2]))
      [] OTHER -> Err("TypeError", <<"text", "can't convert into Float">>)

\* Duration::from_secs_f64 panics when secs is negative or not finite; the
\* panic leaves the method as Ruby's fatal error.
Duration_from_secs_f64(secs) ==
    IF secs[1] # "+" THEN Err("fatal", <<"text", "cannot convert float seconds to Duration">>)
    ELSE Ok(secs)

get_optional_usize(hash, key) ==
    LET val == aref(hash, RSym(key))
    IN  IF is_nil(val) THEN Ok(NoneOpt)
        ELSE LET n == UsizeTryConvert(val) IN IF IsErr(n) THEN n ELSE Ok(Some(n[2]))

get_optional_f64(hash, key) ==
    LET val == aref(hash, RSym(key))
    IN  IF is_nil(val) THEN Ok(NoneOpt)
        ELSE LET f == F64TryConvert(val) IN IF IsErr(f) THEN f ELSE Ok(Some(f[2]))

KeyMaxAllocations == <<"max_allocations">>
KeyMaxDuration == <<"max_duration">>
KeyMaxMemory == <<"max_memory">>
KeyGcInterval == <<"gc_interval">>
KeyMaxRecursionDepth == <<"max_recursion_depth">>

\* monty::ResourceLimits::new(): nothing is bounded.
NoLimits == <<NoneOpt, NoneOpt, NoneOpt, NoneOpt, NoneOpt>>

parse_limits_hash(opts) ==
    LET a == get_optional_usize(opts, KeyMaxAllocations)
        f == get_optional_f64(opts, KeyMaxDuration)
        d == IF IsErr(f) \/ f[2] = NoneOpt THEN f
             ELSE LET duration == Duration_from_secs_f64(f[2][2])
                  IN  IF IsErr(duration) THEN duration ELSE Ok(Some(duration[2]))
        m == get_optional_usize(opts, KeyMaxMemory)
        g == get_optional_usize(opts, KeyGcInterval)
        r == get_optional_usize(opts, KeyMaxRecursionDepth)
    IN  IF IsErr(a) THEN a
        ELSE IF IsErr(d) THEN d
        ELSE IF IsErr(m) THEN m
        ELSE IF IsErr(g) THEN g
        ELSE IF IsErr(r) THEN r
        ELSE Ok(<<a[2], d[2], m[2], g[2], r[2]>>)

NoLimitTracker == <<"NoLimitTracker">>
LimitedTracker(limits) == <<"LimitedTracker", limits>>

-----------------------------------------------------------------------------
(* The engine (crate monty), as far as the extension calls it.  A compiled *)
(* program is a sequence of instructions:                                  *)
(*   <<"print", text>>   <<"alloc">>   <<"call", name, args, kwargs>>      *)
(*   <<"oscall", function, args, kwargs>>   <<"await", call_ids>>          *)
(*   <<"raise", exc_type, summary>>   <<"return", value>>                  *)
(*   <<"return_acc">>   <<"return_input">>                                 *)
(* A paused run (Snapshot, FutureSnapshot) is the record State below.      *)
(* Every entry point returns <<"Ok", progress, printed>> or                *)
(* <<"Err", exception, printed>>: printed is what the run wrote to the     *)
(* print writer it was handed.                                             *)

ChA == <<"a">>
ChB == <<"b">>
ExcValue == <<"ValueError", <<"text", "boom">>>>

Programs == <<
    \* 1: prints, calls f(1, 2), prints, returns what the call returned
    << <<"print", ChA>>, <<"call", "f", <<MInt(One), MInt(<<FALSE, <<2>>>>)>>, <<>>>>,
       <<"print", ChB>>, <<"return_acc">> >>,
    \* 2: prints, allocates twice, then raises
    << <<"print", ChA>>, <<"alloc">>, <<"alloc">>, <<"raise", ExcValue[1], ExcValue[2]>> >>,
    \* 3: allocates twice, prints, returns its input
    << <<"alloc">>, <<"alloc">>, <<"print", ChA>>, <<"return_input">> >>,
    \* 4: prints, waits for two futures, prints, returns their results
    << <<"print", ChA>>, <<"await", <<0, 1>>>>, <<"print", ChB>>, <<"return_acc">> >>,
    \* 5: a platform call, two allocations, a declared call, then prints and raises
    << <<"oscall", "Getenv", <<MString(ChA)>>, <<<<MString(ChB), MNone>>>>>>, <<"alloc">>, <<"alloc">>,
       <<"call", "g", <<>>,
          <<<<MString(ChA), MInt(One)>>>>>>, <<"print", ChB>>,
       <<"raise", ExcValue[1], ExcValue[2]>> >>,
    \* 6: prints around two calls that pass exception values, then returns one
    << <<"print", ChA>>, <<"call", "f", <<MInt(One), MException("ValueError", Some(ChA))>>, <<>>>>,
       <<"print", ChB>>,
       <<"call", "f", <<>>, <<<<MString(ChA), MList(<<MException("KeyError", NoneOpt)>>)>>>>>>,
       <<"return", MException("ValueError", NoneOpt)>> >>,
    \* 7: returns a tuple that holds an exception value
    << <<"return", MTuple(<<MInt(One), MException("ValueError", Some(ChB))>>)>> >>
>>

NatToDigits(n) == IF n < 10 THEN <<n>> ELSE <<n \div 10, n % 10>>

\* LimitedTracker's allocation check; NoLimitTracker checks nothing.
AllocationBreach(tracker, count) ==
    /\ tracker[1] = "LimitedTracker"
    /\ tracker[2][1] # NoneOpt
    /\ ~MagLeq(NatToDigits(count), tracker[2][1][2])

State(p, pc, acc, input, allocs, calls, pending, tracker) ==
    [prog |-> p, pc |-> pc, acc |-> acc, input |-> input, allocs |-> allocs,
     calls |-> calls, pending |-> pending, tracker |-> tracker]

RECURSIVE Exec(_, _, _)
\* Run from st until the program yields, completes or fails.  blocking: the
\* run cannot pause, so a call to an external function is an error there.
Exec(st, blocking, printed) ==
    LET code == Programs[st.prog]
    IN  IF st.pc > Len(code) THEN <<"Ok", <<"Complete", MNone>>, printed>>
        ELSE LET ins == code[st.pc]
                 next == [st EXCEPT !.pc = st.pc + 1]
             IN  CASE ins[1] = "print" -> Exec(next, blocking, printed \o ins[2])
                   [] ins[1] = "alloc" ->
                        IF AllocationBreach(st.tracker, st.allocs + 1)
                        THEN <<"Err", <<"MemoryError",
                                 <<"limit", "Allocation", st.tracker[2][1][2], st.allocs + 1>>>>,
                               printed>>
                        ELSE Exec([next EXCEPT !.allocs = st.allocs + 1], blocking, printed)
                   [] ins[1] \in {"call", "oscall"} ->
                        IF blocking
                        THEN <<"Err", <<"NameError", <<"text", "not resolved">>>>, printed>>
                        ELSE <<"Ok",
                               <<IF ins[1] = "call" THEN "FunctionCall" ELSE "OsCall",
                                 ins[2], ins[3], ins[4], st.calls,
                                 [next EXCEPT !.calls = st.calls + 1]>>,
                               printed>>
                   [] ins[1] = "await" ->
                        IF blocking
                        THEN <<"Err", <<"RuntimeError", <<"text", "no event loop">>>>, printed>>
                        ELSE <<"Ok", <<"ResolveFutures", [next EXCEPT !.pending = ins[2]]>>,
                               printed>>
                   [] ins[1] = "raise" -> <<"Err", <<ins[2], ins[3]>>, printed>>
                   [] ins[1] = "return" -> <<"Ok", <<"Complete", ins[2]>>, printed>>
                   [] ins[1] = "return_acc" -> <<"Ok", <<"Complete", st.acc>>, printed>>
                   [] ins[1] = "return_input" -> <<"Ok", <<"Complete", st.input>>, printed>>

\* Source texts: <<"source", p>> compiles to program p, Malformed does not
\* parse, Unsupported parses and is rejected for another reason.
Malformed == <<"malformed">>
Unsupported == <<"unsupported">>
Sources == {<<"source", p>> : p \in 1..Len(Programs)} \cup {Malformed, Unsupported}

\* MontyRun::new(code, script_name, input_names, ext_fns)
MontyRun_new(code) ==
    CASE code = Malformed -> <<"Err", <<"SyntaxError", <<"text", "invalid syntax">>>>>>
      [] code = Unsupported -> <<"Err", <<"NotImplementedError", <<"text", "not supported">>>>>>
      [] OTHER -> <<"Ok", code[2]>>

\* MontyRun::run(inputs, tracker, print)
MontyRun_run(p, inputs, tracker) ==
    LET r == Exec(State(p, 1, MNone, inputs[1], 0, 0, <<>>, tracker), TRUE, <<>>)
    IN  IF r[1] = "Ok" THEN <<"Ok", r[2][2], r[3]>> ELSE r

\* MontyRun::start(inputs, tracker, print)
MontyRun_start(p, inputs, tracker) ==
    Exec(State(p, 1, MNone, inputs[1], 0, 0, <<>>, tracker), FALSE, <<>>)

\* Snapshot::run(result, print): result is <<"Return", value>> or <<"Error", exc>>.
Snapshot_run(st, result) ==
    IF result[1] = "Error" THEN <<"Err", result[2], <<>>>>
    ELSE Exec([st EXCEPT !.acc = result[2]], FALSE, <<>>)

IdsOf(resolved) == {resolved[i][1] : i \in 1..Len(resolved)}
SelectSeq2(seq, S) == SelectSeq(seq, LAMBDA x : x \notin S)

\* FutureSnapshot::resume(results, print): results is a sequence of
\* <<call_id, result>>.  An id that is not pending is an error; an error
\* result is raised in the program; while ids stay pending the run waits on.
FutureSnapshot_resume(st, resolved) ==
    LET pendingSet == {st.pending[i] : i \in 1..Len(st.pending)}
        left == SelectSeq2(st.pending, IdsOf(resolved))
    IN  IF ~(IdsOf(resolved) \subseteq pendingSet)
        THEN <<"Err", <<"RuntimeError", <<"text", "unknown call id">>>>, <<>>>>
        ELSE IF \E i \in 1..Len(resolved) : resolved[i][2][1] = "Error"
        THEN <<"Err",
               resolved[CHOOSE i \in 1..Len(resolved) : resolved[i][2][1] = "Error"][2][2],
               <<>>>>
        ELSE IF left # <<>>
        THEN <<"Ok", <<"ResolveFutures", [st EXCEPT !.pending = left]>>, <<>>>>
        ELSE Exec([st EXCEPT !.pending = <<>>,
                             !.acc = MList([i \in 1..Len(resolved) |-> resolved[i][2][2]])],
                  FALSE, <<>>)

-----------------------------------------------------------------------------
(* The cells: RefCell<Option<..>>.  borrow().as_ref() reads the cell and   *)
(* leaves it as it is; borrow_mut().take() empties it.                     *)

\* borrow() mistaken for take().
BorrowCellTakes(cell) == IF cell = "Some" THEN "None" ELSE cell

BorrowCell(cell) == cell
TakeInner(cell) == "None"
TakeState(cell) == NoneOpt

-----------------------------------------------------------------------------
(* run_progress.rs: the progress objects.  chain and entries are history:  *)
(* the session the object descends from and how often the engine was       *)
(* re-entered from the object's snapshot.                                  *)

NoName == ""

\* The engine's name for the platform call, with no prefix.
OsNameBare(function) == function

\* format!("os:{function:?}")
OsName(function) == "os:" \o function

\* Progress::from_run_progress
from_run_progress(progress, output) ==
    CASE progress[1] = "FunctionCall" ->
            [kind |-> "FunctionCall", function_name |-> progress[2], args |-> progress[3],
             kwargs |-> progress[4], call_id |-> progress[5], pending_call_ids |-> <<>>,
             output |-> output, state |-> Some(progress[6]), result |-> NoneOpt]
      [] progress[1] = "OsCall" ->
            [kind |-> "FunctionCall", function_name |-> OsName(progress[2]),
             args |-> progress[3], kwargs |-> progress[4], call_id |-> progress[5],
             pending_call_ids |-> <<>>,
             output |-> output, state |-> Some(progress[6]), result |-> NoneOpt]
      [] progress[1] = "ResolveFutures" ->
            [kind |-> "PendingFutures", function_name |-> NoName, args |-> <<>>,
             kwargs |-> <<>>, call_id |-> 0, pending_call_ids |-> progress[2].pending,
             output |-> output, state |-> Some(progress[2]), result |-> NoneOpt]
      [] progress[1] = "Complete" ->
            [kind |-> "Complete", function_name |-> NoName, args |-> <<>>,
             kwargs |-> <<>>, call_id |-> 0, pending_call_ids |-> <<>>,
             output |-> output, state |-> NoneOpt, result |-> Some(progress[2])]

-----------------------------------------------------------------------------
(* What one host call did.  ret is what the call returned; the other       *)
(* fields are history: whether the engine was entered, under which         *)
(* tracker, what it was handed, what it printed, the exception it raised.  *)

NoCall == <<"none">>

Outcome(ret, entered, tracker, received, text, exc, progress) ==
    [ret |-> ret, entered |-> entered, tracker |-> tracker, received |-> received,
     printed |-> text, exc |-> exc, progress |-> progress]

NotEntered(ret) == Outcome(ret, FALSE, NoCall, NoCall, <<>>, NoCall, NoneOpt)

\* The tail of every run: .map_err(map_monty_exception)? on the engine's answer.
AfterEngine(t, r, tracker, received, onOk) ==
    IF r[1] = "Err"
    THEN Outcome(map_monty_exception(t, r[2]), TRUE, tracker, received, r[3], r[2], NoneOpt)
    ELSE Outcome(onOk, TRUE, tracker, received, r[3], NoCall, Some(<<r[2], r[3]>>))

KeyResult == <<"result">>
KeyOutput == <<"output">>

\* hash.aset(:result, monty_to_ruby(result)?); hash.aset(:output, str_new(print.output()))
CapturedHash(t, result, output) ==
    LET v == monty_to_ruby(t, result)
    IN  IF IsErr(v) THEN v
        ELSE Ok(RHashOf(aset(aset(<<>>, RSym(KeyResult), v[2]), RSym(KeyOutput), RStr(output))))

-----------------------------------------------------------------------------
(* monty_run.rs: the methods of Run, on thread t, as functions of the cell *)
(* and the arguments.                                                      *)

RECURSIVE entry_names(_)
\* for i in 0..arr.len() { let val: String = arr.entry(i)?; names.push(val) }
entry_names(items) ==
    IF items = <<>> THEN Ok(<<>>)
    ELSE LET val == IF Head(items)[1] = "String" THEN StringTryConvert(Head(items))
                    ELSE Err("TypeError", <<"text", "no implicit conversion into String">>)
         IN  IF IsErr(val) THEN val
             ELSE LET rest == entry_names(Tail(items))
                  IN  IF IsErr(rest) THEN rest ELSE Ok(<<val[2]>> \o rest[2])

\* Option<RArray> of names: nil is None.
names_of(arr) == IF is_nil(arr) THEN Ok(<<>>) ELSE entry_names(arr[2])

Run_new(t, code, inputs, external_functions) ==
    LET input_names == names_of(inputs)
        ext_fns == names_of(external_functions)
        monty_run == MontyRun_new(code)
    IN  IF IsErr(input_names) THEN input_names
        ELSE IF IsErr(ext_fns) THEN ext_fns
        ELSE IF monty_run[1] = "Err" THEN map_monty_exception(t, monty_run[2])
        ELSE Ok(<<"Run", monty_run[2]>>)

Run_code(t, cell, p) ==
    IF BorrowCell(cell) = "None" THEN NotEntered(consumed_error(t))
    ELSE NotEntered(Ok(<<"code", p>>))

Run_run(t, cell, p, inputs) ==
    IF BorrowCell(cell) = "None" THEN NotEntered(consumed_error(t))
    ELSE LET monty_inputs == ruby_array_to_monty_vec(inputs)
         IN  IF IsErr(monty_inputs) THEN NotEntered(monty_inputs)
             ELSE LET r == MontyRun_run(p, monty_inputs[2], NoLimitTracker)
                  IN  AfterEngine(t, r, NoLimitTracker, NoCall,
                                  IF r[1] = "Ok" THEN monty_to_ruby(t, r[2]) ELSE NoCall)

Run_run_with_limits(t, cell, p, inputs, limits) ==
    IF BorrowCell(cell) = "None" THEN NotEntered(consumed_error(t))
    ELSE LET monty_inputs == ruby_array_to_monty_vec(inputs)
         IN  IF IsErr(monty_inputs) THEN NotEntered(monty_inputs)
             ELSE LET resource_limits == parse_limits_hash(limits)
                  IN  IF IsErr(resource_limits) THEN NotEntered(resource_limits)
                      ELSE LET tracker == LimitedTracker(resource_limits[2])
                               r == MontyRun_run(p, monty_inputs[2], tracker)
                           IN  AfterEngine(t, r, tracker, NoCall,
                                   IF r[1] = "Ok" THEN monty_to_ruby(t, r[2]) ELSE NoCall)

Run_run_capturing(t, cell, p, inputs) ==
    IF BorrowCell(cell) = "None" THEN NotEntered(consumed_error(t))
    ELSE LET monty_inputs == ruby_array_to_monty_vec(inputs)
         IN  IF IsErr(monty_inputs) THEN NotEntered(monty_inputs)
             ELSE LET r == MontyRun_run(p, monty_inputs[2], NoLimitTracker)
                  IN  AfterEngine(t, r, NoLimitTracker, NoCall,
                                  IF r[1] = "Ok" THEN CapturedHash(t, r[2], r[3]) ELSE NoCall)

Run_run_capturing_with_limits(t, cell, p, inputs, limits) ==
    IF BorrowCell(cell) = "None" THEN NotEntered(consumed_error(t))
    ELSE LET monty_inputs == ruby_array_to_monty_vec(inputs)
         IN  IF IsErr(monty_inputs) THEN NotEntered(monty_inputs)
             ELSE LET resource_limits == parse_limits_hash(limits)
                  IN  IF IsErr(resource_limits) THEN NotEntered(resource_limits)
                      ELSE LET tracker == LimitedTracker(resource_limits[2])
                               r == MontyRun_run(p, monty_inputs[2], tracker)
                           IN  AfterEngine(t, r, tracker, NoCall,
                                   IF r[1] = "Ok" THEN CapturedHash(t, r[2], r[3]) ELSE NoCall)

\* start under a tracker with a ceiling of one allocation.
StartTrackerLimited == LimitedTracker(<<Some(<<1>>), NoneOpt, NoneOpt, NoneOpt, NoneOpt>>)

\* The tracker start hands to MontyRun::start.
StartTracker == NoLimitTracker

\* Progress::from_run_progress never fails: the new object is returned.
ReturnsProgress == Ok(<<"Progress">>)

Run_start(t, cell, p, inputs) ==
    IF cell = "None" THEN NotEntered(consumed_error(t))
    ELSE LET monty_inputs == ruby_array_to_monty_vec(inputs)
         IN  IF IsErr(monty_inputs) THEN NotEntered(monty_inputs)
             ELSE AfterEngine(t, MontyRun_start(p, monty_inputs[2], StartTracker),
                              StartTracker, NoCall, ReturnsProgress)

\* MontyRun::dump: the engine's serializer may refuse (ok = FALSE).
Run_dump(t, cell, p, ok) ==
    IF BorrowCell(cell) = "None" THEN NotEntered(consumed_error(t))
    ELSE IF ok THEN NotEntered(Ok(<<"bytes", p>>))
    ELSE NotEntered(Err("RuntimeError", <<"text", "serialization error">>))

Garbage == <<"garbage">>

\* MontyRun::load: bytes that dump produced give the program back.
Run_load(bytes) ==
    IF bytes[1] = "bytes" THEN NotEntered(Ok(<<"Run", bytes[2]>>))
    ELSE NotEntered(Err("RuntimeError", <<"text", "deserialization error">>))

-----------------------------------------------------------------------------
(* run_progress.rs: the methods of the progress objects, on thread t, as   *)
(* functions of the cell and the arguments.                                *)

\* The arguments pushed last to first.
FunctionCall_args_reversed(t, args) ==
    LET arr == m2r_items(t, [i \in 1..Len(args) |-> args[Len(args) + 1 - i]])
    IN  IF IsErr(arr) THEN arr ELSE Ok(RAry(arr[2]))

\* FunctionCall::args: each argument converted and pushed, in order.
FunctionCall_args(t, args) ==
    LET arr == m2r_items(t, args)
    IN  IF IsErr(arr) THEN arr ELSE Ok(RAry(arr[2]))

\* FunctionCall::kwargs: each pair converted and stored with aset.
FunctionCall_kwargs(t, kwargs) ==
    LET hash == m2r_pairs(t, kwargs, <<>>)
    IN  IF IsErr(hash) THEN hash ELSE Ok(RHashOf(hash[2]))

\* FunctionCall::function_name: self.function_name.clone()
FunctionCall_function_name(function_name) == Ok(<<"String", function_name>>)

\* FunctionCall::call_id: self.call_id
FunctionCall_call_id(call_id) == Ok(RInt(<<FALSE, NatToDigits(call_id)>>))

\* FunctionCall::output: self.output.clone()
FunctionCall_output(output) == Ok(RStr(output))

\* PendingFutures::pending_call_ids: each id pushed as an Integer, in order.
PendingFutures_pending_call_ids(ids) ==
    Ok(RAry([k \in 1..Len(ids) |-> RInt(<<FALSE, NatToDigits(ids[k])>>)]))

\* PendingFutures::output: self.output.clone()
PendingFutures_output(output) == Ok(RStr(output))

\* Complete::output: self.output.clone()
Complete_output(output) == Ok(RStr(output))

FunctionCall_resume(t, cell, result) ==
    IF cell = NoneOpt THEN NotEntered(consumed_error(t))
    ELSE LET monty_result == ruby_to_monty(result)
         IN  IF IsErr(monty_result) THEN NotEntered(monty_result)
             ELSE LET given == <<"Return", monty_result[2]>>
                  IN  AfterEngine(t, Snapshot_run(cell[2], given), cell[2].tracker, given,
                                  ReturnsProgress)

FunctionCall_resume_with_error(t, cell, message) ==
    IF cell = NoneOpt THEN NotEntered(consumed_error(t))
    ELSE LET given == <<"Error", <<"RuntimeError", <<"chars", message>>>>>>
         IN  AfterEngine(t, Snapshot_run(cell[2], given), cell[2].tracker, given,
                         ReturnsProgress)

U32MaxMag == <<4,2,9,4,9,6,7,2,9,5>>

RECURSIVE DigitsToNat(_)
DigitsToNat(d) ==
    IF d = <<>> THEN 0 ELSE DigitsToNat(SubSeq(d, 1, Len(d) - 1)) * 10 + d[Len(d)]

\* u32::try_convert
U32TryConvert(val) ==
    IF val[1] # "Integer" THEN Err("TypeError", <<"text", "no implicit conversion into Integer">>)
    ELSE IF val[2][1] \/ ~MagLeq(val[2][2], U32MaxMag)
         THEN Err("RangeError", <<"text", "out of range for u32">>)
         ELSE Ok(DigitsToNat(val[2][2]))

\* A resolution handed over as an error.
WrapResolutionAsError(monty_value) == <<"Error", <<"RuntimeError", <<"chars", <<>>>>>>>>

\* How resume wraps each converted value for the engine.
WrapResolution(monty_value) == <<"Return", monty_value>>

RECURSIVE ResolveEntries(_, _)
\* The loop of PendingFutures::resume over results: the first entry that is
\* no [call_id, value] pair, or whose value does not convert, ends the call.
ResolveEntries(t, results) ==
    IF results = <<>> THEN Ok(<<>>)
    ELSE LET pair == Head(results)
         IN  IF pair[1] # "Array"
             THEN Err("TypeError", <<"text", "no implicit conversion into Array">>)
             ELSE IF Len(pair[2]) # 2
             THEN monty_error(t, <<"text", "each result must be a [call_id, value] pair">>)
             ELSE LET call_id == U32TryConvert(pair[2][1])
                  IN  IF IsErr(call_id) THEN call_id
                      ELSE LET monty_value == ruby_to_monty(pair[2][2])
                           IN  IF IsErr(monty_value) THEN monty_value
                               ELSE LET rest == ResolveEntries(t, Tail(results))
                                    IN  IF IsErr(rest) THEN rest
                                        ELSE Ok(<<<<call_id[2], WrapResolution(monty_value[2])>>>>
                                                \o rest[2])

PendingFutures_resume(t, cell, results) ==
    IF cell = NoneOpt THEN NotEntered(consumed_error(t))
    ELSE LET resolved == ResolveEntries(t, results)
         IN  IF IsErr(resolved) THEN NotEntered(resolved)
             ELSE AfterEngine(t, FutureSnapshot_resume(cell[2], resolved[2]),
                              cell[2].tracker, resolved[2], ReturnsProgress)

Complete_value(t, cell) ==
    IF cell = NoneOpt THEN NotEntered(consumed_error(t))
    ELSE NotEntered(monty_to_ruby(t, cell[2]))

-----------------------------------------------------------------------------
(* The host.                                                               *)

\* The Run objects of the host: the one Run.new built, and one Run.load may build.
Sessions == {1, 2}

Three == <<FALSE, <<3>>>>
Five == <<FALSE, <<5>>>>

InputArrays == {<<RInt(One)>>, <<RObject>>}
\* Inputs of the blocking runs: these, and arrays that hold an object of no
\* supported class inside an Array or a Hash.
BlockingInputArrays ==
    InputArrays
    \cup {<<RInt(One), RHashOf(<<<<RStr(ChA), RAry(<<RInt(One), RObject>>)>>>>)>>,
          <<RAry(<<RNamed("TrueClass")>>)>>}
LimitHashes ==
    {<<>>,
     <<<<RSym(KeyMaxAllocations), RInt(One)>>>>,
     <<<<RSym(KeyMaxAllocations), RInt(Five)>>, <<RSym(KeyMaxMemory), RNil>>>>,
     <<<<RSym(KeyMaxAllocations), RStr(ChA)>>>>}
ResumeValues == {RInt(Three), RSym(ChA), RObject}
ErrorMessages == {<<"e">>}

\* A host that wants a future to fail has only the value slot of the pair
\* to say so: it puts an exception object there.
RException == <<"StandardError", ChA>>
IsErrorResolution(value) == value[1] = "StandardError"

Pair(id, value) == RAry(<<RInt(id), value>>)
FutureBatches ==
    {<<Pair(Zero, RInt(Three)), Pair(One, RStr(ChA))>>,
     <<Pair(One, RInt(Three))>>,
     <<Pair(Zero, RInt(Three))>>,
     <<Pair(Zero, RInt(Three)), Pair(One, RException)>>,
     <<Pair(Zero, RInt(Three)), RAry(<<RInt(One)>>)>>,
     <<Pair(Five, RNil)>>,
     <<RNil>>}

\* A thread that is in no call.
Idle == [obj |-> 0, op |-> "none", args |-> NoCall, state |-> NoneOpt]

Wrap(obj, s) == [o |-> obj, chain |-> s, entries |-> 0]

Last(op, t, target, args, pre, was_started, out, new) ==
    [op |-> op, thread |-> t, target |-> target, args |-> args, pre |-> pre,
     was_started |-> was_started, ret |-> out.ret, entered |-> out.entered,
     tracker |-> out.tracker, received |-> out.received, printed |-> out.printed,
     exc |-> out.exc, engine |-> out.progress, new |-> new]

NoText == [all |-> <<>>, lost |-> <<>>]

ProtoInit ==
    /\ inner = [s \in Sessions |-> IF s = 1 THEN "Some" ELSE "Absent"]
    /\ \E p \in 1..Len(Programs) : prog = [s \in Sessions |-> IF s = 1 THEN p ELSE 0]
    /\ objs = <<>>
    /\ runText = [s \in Sessions |-> NoText]
    /\ started = [s \in Sessions |-> FALSE]
    /\ blobs = {}
    /\ hist = [s \in Sessions |-> <<>>]
    /\ attempts = [t \in Threads |-> Idle]
    /\ last = Last("Run.new", LoaderThread, <<"Run", 1>>, NoCall, "Absent", FALSE,
                   NotEntered(Ok(<<"Run", 1>>)), 0)

BridgeInitIdle ==
    /\ bdir = "idle"
    /\ bin = BridgeIdle
    /\ bmid = BridgeIdle
    /\ bout = BridgeIdle
    /\ bstage = 0
    /\ bthread = LoaderThread

Init == ProtoInit /\ BridgeInitIdle

\* A call on session s that only borrows the cell.
BorrowingCall(op, t, s, args, out) ==
    /\ inner' = [inner EXCEPT ![s] = BorrowCell(inner[s])]
    /\ last' = Last(op, t, <<"Run", s>>, args, inner[s], started[s], out, 0)
    /\ UNCHANGED <<prog, objs, runText, started, bridgeVars>>

Borrowing(op, t, s, args, out) == BorrowingCall(op, t, s, args, out) /\ UNCHANGED <<hist, attempts>>

Code ==
    \E t \in Threads, s \in Sessions :
        /\ inner[s] # "Absent"
        /\ Borrowing("Run.code", t, s, NoCall, Run_code(t, inner[s], prog[s]))
        /\ UNCHANGED blobs

Run ==
    \E t \in Threads, s \in Sessions, inputs \in BlockingInputArrays :
        /\ inner[s] # "Absent"
        /\ Borrowing("Run.run", t, s, <<"args", inputs>>, Run_run(t, inner[s], prog[s], inputs))
        /\ UNCHANGED blobs

RunWithLimits ==
    \E t \in Threads, s \in Sessions, inputs \in BlockingInputArrays, limits \in LimitHashes :
        /\ inner[s] # "Absent"
        /\ Borrowing("Run.run_with_limits", t, s, <<"args", inputs, limits>>,
                     Run_run_with_limits(t, inner[s], prog[s], inputs, limits))
        /\ UNCHANGED blobs

RunCapturing ==
    \E t \in Threads, s \in Sessions, inputs \in BlockingInputArrays :
        /\ inner[s] # "Absent"
        /\ Borrowing("Run.run_capturing", t, s, <<"args", inputs>>,
                     Run_run_capturing(t, inner[s], prog[s], inputs))
        /\ UNCHANGED blobs

RunCapturingWithLimits ==
    \E t \in Threads, s \in Sessions, inputs \in BlockingInputArrays, limits \in LimitHashes :
        /\ inner[s] # "Absent"
        /\ Borrowing("Run.run_capturing_with_limits", t, s, <<"args", inputs, limits>>,
                     Run_run_capturing_with_limits(t, inner[s], prog[s], inputs, limits))
        /\ UNCHANGED blobs

Dump ==
    \E t \in Threads, s \in Sessions, ok \in BOOLEAN :
        /\ inner[s] # "Absent"
        /\ LET out == Run_dump(t, inner[s], prog[s], ok)
           IN  /\ Borrowing("Run.dump", t, s, NoCall, out)
               /\ blobs' = IF IsOk(out.ret) THEN blobs \cup {out.ret[2]} ELSE blobs

\* What a step of an interruptible run leaves behind: the new progress
\* object when the step returned one, and the text the engine printed.
Step(base, s, out) ==
    /\ objs' = IF out.progress # NoneOpt
               THEN Append(base, Wrap(from_run_progress(out.progress[2][1], out.progress[2][2]), s))
               ELSE base
    /\ runText' = [runText EXCEPT
                     ![s].all = @ \o out.printed,
                     ![s].lost = IF out.progress = NoneOpt THEN @ \o out.printed ELSE @]

NewIndex(out) == IF out.progress # NoneOpt THEN Len(objs) + 1 ELSE 0

StartCall(t, s, inputs) ==
    /\ inner[s] # "Absent"
    /\ LET out == Run_start(t, inner[s], prog[s], inputs)
       IN  /\ inner' = [inner EXCEPT ![s] = TakeInner(inner[s])]
           /\ started' = [started EXCEPT ![s] = TRUE]
           /\ Step(objs, s, out)
           /\ last' = Last("Run.start", t, <<"Run", s>>, <<"args", inputs>>, inner[s],
                           started[s], out, NewIndex(out))
    /\ UNCHANGED <<prog, blobs, bridgeVars>>

Start ==
    \E t \in Threads, s \in Sessions, inputs \in InputArrays :
        StartCall(t, s, inputs) /\ UNCHANGED <<hist, attempts>>

\* A resume that empties the cell of every object.
EmptiedAll(i, out) ==
    [j \in 1..Len(objs) |->
        [objs[j] EXCEPT !.o.state = TakeState(@),
                        !.entries = IF j = i /\ out.entered THEN @ + 1 ELSE @]]

\* A resume call on object i: the cell is emptied, the engine may be entered.
Emptied(i, out) ==
    [objs EXCEPT ![i].o.state = TakeState(@),
                 ![i].entries = IF out.entered THEN @ + 1 ELSE @]

ResumingCall(op, t, i, args, out) ==
    /\ Step(Emptied(i, out), objs[i].chain, out)
    /\ last' = Last(op, t, <<"Obj", i>>, args, objs[i].o.state[1], TRUE, out, NewIndex(out))
    /\ UNCHANGED <<inner, prog, started, blobs, bridgeVars>>

Resuming(op, t, i, args, out) == ResumingCall(op, t, i, args, out) /\ UNCHANGED <<hist, attempts>>

FcResume ==
    \E t \in Threads, i \in 1..Len(objs), result \in ResumeValues :
        /\ objs[i].o.kind = "FunctionCall"
        /\ Resuming("FunctionCall.resume", t, i, <<"args", result>>,
                    FunctionCall_resume(t, objs[i].o.state, result))

FcResumeWithError ==
    \E t \in Threads, i \in 1..Len(objs), message \in ErrorMessages :
        /\ objs[i].o.kind = "FunctionCall"
        /\ Resuming("FunctionCall.resume_with_error", t, i, <<"args", message>>,
                    FunctionCall_resume_with_error(t, objs[i].o.state, message))

PfResume ==
    \E t \in Threads, i \in 1..Len(objs), results \in FutureBatches :
        /\ objs[i].o.kind = "PendingFutures"
        /\ Resuming("PendingFutures.resume", t, i, <<"args", results>>,
                    PendingFutures_resume(t, objs[i].o.state, results))

ValueCall(t, i) ==
    /\ objs[i].o.kind = "Complete"
    /\ LET out == Complete_value(t, objs[i].o.result)
       IN  /\ objs' = [objs EXCEPT ![i].o.result = TakeState(@)]
           /\ last' = Last("Complete.value", t, <<"Obj", i>>, NoCall, objs[i].o.result[1], TRUE,
                           out, 0)
    /\ UNCHANGED <<inner, prog, runText, started, blobs, bridgeVars>>

Value ==
    \E t \in Threads, i \in 1..Len(objs) : ValueCall(t, i) /\ UNCHANGED <<hist, attempts>>

\* An accessor that takes the snapshot out of its cell as resume does.
ReadingTakes(op, t, i, ret) ==
    /\ last' = Last(op, t, <<"Obj", i>>, NoCall, objs[i].o.state[1], TRUE, NotEntered(ret), 0)
    /\ objs' = [objs EXCEPT ![i].o.state = TakeState(@)]
    /\ UNCHANGED <<inner, prog, runText, started, blobs, hist, attempts, bridgeVars>>

\* An accessor of object i: it reads, and changes nothing.
Reading(op, t, i, ret) ==
    /\ last' = Last(op, t, <<"Obj", i>>, NoCall, objs[i].o.state[1], TRUE, NotEntered(ret), 0)
    /\ UNCHANGED <<inner, prog, objs, runText, started, blobs, hist, attempts, bridgeVars>>

Args ==
    \E t \in Threads, i \in 1..Len(objs) :
        /\ objs[i].o.kind = "FunctionCall"
        /\ Reading("FunctionCall.args", t, i, FunctionCall_args(t, objs[i].o.args))

Kwargs ==
    \E t \in Threads, i \in 1..Len(objs) :
        /\ objs[i].o.kind = "FunctionCall"
        /\ Reading("FunctionCall.kwargs", t, i, FunctionCall_kwargs(t, objs[i].o.kwargs))

FunctionName ==
    \E t \in Threads, i \in 1..Len(objs) :
        /\ objs[i].o.kind = "FunctionCall"
        /\ Reading("FunctionCall.function_name", t, i,
                   FunctionCall_function_name(objs[i].o.function_name))

CallId ==
    \E t \in Threads, i \in 1..Len(objs) :
        /\ objs[i].o.kind = "FunctionCall"
        /\ Reading("FunctionCall.call_id", t, i, FunctionCall_call_id(objs[i].o.call_id))

FcOutput ==
    \E t \in Threads, i \in 1..Len(objs) :
        /\ objs[i].o.kind = "FunctionCall"
        /\ Reading("FunctionCall.output", t, i, FunctionCall_output(objs[i].o.output))

PendingCallIds ==
    \E t \in Threads, i \in 1..Len(objs) :
        /\ objs[i].o.kind = "PendingFutures"
        /\ Reading("PendingFutures.pending_call_ids", t, i,
                   PendingFutures_pending_call_ids(objs[i].o.pending_call_ids))

PfOutput ==
    \E t \in Threads, i \in 1..Len(objs) :
        /\ objs[i].o.kind = "PendingFutures"
        /\ Reading("PendingFutures.output", t, i, PendingFutures_output(objs[i].o.output))

CompleteOutput ==
    \E t \in Threads, i \in 1..Len(objs) :
        /\ objs[i].o.kind = "Complete"
        /\ Reading("Complete.output", t, i, Complete_output(objs[i].o.output))

Next ==
    \/ Code
    \/ Run
    \/ RunWithLimits
    \/ RunCapturing
    \/ RunCapturingWithLimits
    \/ Start
    \/ Dump
    \/ FcResume
    \/ FcResumeWithError
    \/ PfResume
    \/ Value
    \/ Args
    \/ Kwargs
    \/ FunctionName
    \/ CallId
    \/ FcOutput
    \/ PendingCallIds
    \/ PfOutput
    \/ CompleteOutput

Spec == Init /\ [][Next]_vars

-----------------------------------------------------------------------------
(* Resume attempts of several threads.  A resume first empties the cell;    *)
(* a thread that found the snapshot there goes on to convert its argument, *)
(* which calls into Ruby (run_progress.rs 65, 138), so that other threads  *)
(* may run before it enters the engine.  A thread that found the cell      *)
(* empty returns at once.                                                  *)

Attempts(i) ==
    IF objs[i].o.kind = "FunctionCall"
    THEN {<<"FunctionCall.resume", <<"args", v>>>> : v \in ResumeValues}
         \cup {<<"FunctionCall.resume_with_error", <<"args", m>>>> : m \in ErrorMessages}
    ELSE {<<"PendingFutures.resume", <<"args", b>>>> : b \in FutureBatches}

\* The method of an attempt, applied to what the attempt found in the cell.
Attempted(t, op, args, cell) ==
    CASE op = "FunctionCall.resume" -> FunctionCall_resume(t, cell, args[2])
      [] op = "FunctionCall.resume_with_error" -> FunctionCall_resume_with_error(t, cell, args[2])
      [] op = "PendingFutures.resume" -> PendingFutures_resume(t, cell, args[2])

\* self.state.borrow_mut().take().ok_or_else(consumed_error)?
TakeSnapshot ==
    \E t \in Threads, i \in 1..Len(objs) :
        /\ attempts[t] = Idle
        /\ objs[i].o.kind \in {"FunctionCall", "PendingFutures"}
        /\ \E a \in Attempts(i) :
              IF objs[i].o.state = NoneOpt
              THEN /\ ResumingCall(a[1], t, i, a[2], Attempted(t, a[1], a[2], NoneOpt))
                   /\ UNCHANGED <<hist, attempts>>
              ELSE /\ objs' = [objs EXCEPT ![i].o.state = TakeState(@)]
                   /\ attempts' = [attempts EXCEPT ![t] =
                                   [obj |-> i, op |-> a[1], args |-> a[2], state |-> objs[i].o.state]]
                   /\ UNCHANGED <<inner, prog, runText, started, blobs, last, hist, bridgeVars>>

\* The rest of the method: the argument is converted and the engine entered.
RunSnapshot ==
    \E t \in Threads :
        /\ attempts[t] # Idle
        /\ LET c == attempts[t]
               out == Attempted(t, c.op, c.args, c.state)
           IN  /\ Step([objs EXCEPT ![c.obj].entries = IF out.entered THEN @ + 1 ELSE @],
                        objs[c.obj].chain, out)
               /\ last' = Last(c.op, t, <<"Obj", c.obj>>, c.args, c.state[1], TRUE, out,
                               NewIndex(out))
        /\ attempts' = [attempts EXCEPT ![t] = Idle]
        /\ UNCHANGED <<inner, prog, started, blobs, hist, bridgeVars>>

NextRace == Start \/ TakeSnapshot \/ RunSnapshot

SpecRace == Init /\ [][NextRace]_vars

-----------------------------------------------------------------------------
(* A session and its copy.  Run.load builds the second Run from bytes that  *)
(* Run.dump returned; hist keeps, for each Run, the calls made on it and   *)
(* on the progress objects that descend from it, each with what the host   *)
(* got back.  A Run with the shorter record is given the calls the other   *)
(* one was given, so that the two records can be compared call by call.    *)

MaxCalls == 3

\* The cell of the Run that load builds, emptied.
LoadedCellEmpty == "None"

\* Run { inner: RefCell::new(Some(runner)) }
LoadedCell == "Some"

FreeSession == CHOOSE x \in Sessions : inner[x] = "Absent" /\ \A y \in 1..(x - 1) : inner[y] # "Absent"

LoadCall(t, bytes) ==
    /\ \E s \in Sessions : inner[s] = "Absent"
    /\ LET s == FreeSession
           out == Run_load(bytes)
       IN  /\ inner' = IF IsOk(out.ret) THEN [inner EXCEPT ![s] = LoadedCell] ELSE inner
           /\ prog' = IF IsOk(out.ret) THEN [prog EXCEPT ![s] = out.ret[2][2]] ELSE prog
           /\ last' = Last("Run.load", t, IF IsOk(out.ret) THEN <<"Run", s>> ELSE NoCall,
                           <<"args", bytes>>, "Absent", FALSE, out, 0)
    /\ UNCHANGED <<objs, runText, started, blobs, hist, attempts, bridgeVars>>

Load == \E t \in Threads, bytes \in blobs \cup {Garbage} : LoadCall(t, bytes)

\* The place of object i among the objects of its chain.
Rank(os, i) == Cardinality({j \in 1..i : os[j].chain = os[i].chain})

\* What the host did and what it got back: the value or the error, and the
\* progress object when the call returned one.
Entry(l, os) ==
    [call |-> <<l.op, l.thread, IF l.target[1] = "Obj" THEN Rank(os, l.target[2]) ELSE 0, l.args>>,
     result |-> <<l.ret, IF l.new # 0 THEN <<os[l.new].o>> ELSE <<>>>>,
     new |-> IF l.new # 0 THEN Rank(os, l.new) ELSE 0]

Replays(s, call) ==
    \A o \in Sessions \ {s} :
        Len(hist[o]) > Len(hist[s]) => hist[o][Len(hist[s]) + 1].call = call

\* The threads the recorded calls are made from.
Callers == {LoaderThread}

Logged(s) ==
    /\ Len(hist[s]) < MaxCalls
    /\ LET e == Entry(last', objs')
       IN  /\ Replays(s, e.call)
           /\ hist' = [hist EXCEPT ![s] = Append(@, e)]
    /\ UNCHANGED attempts

LoggedCode ==
    \E t \in Callers, s \in Sessions :
        /\ inner[s] # "Absent"
        /\ BorrowingCall("Run.code", t, s, NoCall, Run_code(t, inner[s], prog[s]))
        /\ UNCHANGED blobs
        /\ Logged(s)

\* The ceiling the recorded runs are made under: program 3 allocates twice,
\* so that three runs in a row stay below it only if each starts from zero.
CeilingOfFive == <<<<RSym(KeyMaxAllocations), RInt(Five)>>>>

LoggedRunCapturingWithLimits ==
    \E t \in Callers, s \in Sessions, inputs \in InputArrays, limits \in {CeilingOfFive} :
        /\ inner[s] # "Absent"
        /\ BorrowingCall("Run.run_capturing_with_limits", t, s, <<"args", inputs, limits>>,
                         Run_run_capturing_with_limits(t, inner[s], prog[s], inputs, limits))
        /\ UNCHANGED blobs
        /\ Logged(s)

LoggedStart ==
    \E t \in Callers, s \in Sessions, inputs \in InputArrays :
        StartCall(t, s, inputs) /\ Logged(s)

LoggedFcResume ==
    \E t \in Callers, i \in 1..Len(objs), result \in ResumeValues :
        /\ objs[i].o.kind = "FunctionCall"
        /\ ResumingCall("FunctionCall.resume", t, i, <<"args", result>>,
                        FunctionCall_resume(t, objs[i].o.state, result))
        /\ Logged(objs[i].chain)

LoggedPfResume ==
    \E t \in Callers, i \in 1..Len(objs), results \in FutureBatches :
        /\ objs[i].o.kind = "PendingFutures"
        /\ ResumingCall("PendingFutures.resume", t, i, <<"args", results>>,
                        PendingFutures_resume(t, objs[i].o.state, results))
        /\ Logged(objs[i].chain)

LoggedValue ==
    \E t \in Callers, i \in 1..Len(objs) : ValueCall(t, i) /\ Logged(objs[i].chain)

NextLoad ==
    \/ Dump
    \/ Load
    \/ LoggedCode
    \/ LoggedRunCapturingWithLimits
    \/ LoggedStart
    \/ LoggedFcResume
    \/ LoggedPfResume
    \/ LoggedValue

SpecLoad == Init /\ [][NextLoad]_vars

-----------------------------------------------------------------------------
(* Creation.  Run.new builds a Run from a source text and two arrays of    *)
(* names, from any thread, as long as there is room for one more Run.      *)

ProtoIdle ==
    /\ inner = [s \in Sessions |-> "Absent"]
    /\ prog = [s \in Sessions |-> 0]
    /\ objs = <<>>
    /\ runText = [s \in Sessions |-> NoText]
    /\ started = [s \in Sessions |-> FALSE]
    /\ blobs = {}
    /\ hist = [s \in Sessions |-> <<>>]
    /\ attempts = [t \in Threads |-> Idle]
    /\ last = Last("none", LoaderThread, NoCall, NoCall, "Absent", FALSE,
                   NotEntered(Ok(NoCall)), 0)

NameArrays == {RNil, RAry(<<RStr(ChA)>>), RAry(<<RInt(One)>>)}

New ==
    \E t \in Threads, code \in Sources, inputs \in NameArrays, external_functions \in NameArrays :
        /\ \E s \in Sessions : inner[s] = "Absent"
        /\ LET s == FreeSession
               ret == Run_new(t, code, inputs, external_functions)
           IN  /\ inner' = IF IsOk(ret) THEN [inner EXCEPT ![s] = "Some"] ELSE inner
               /\ prog' = IF IsOk(ret) THEN [prog EXCEPT ![s] = ret[2][2]] ELSE prog
               /\ last' = Last("Run.new", t, IF IsOk(ret) THEN <<"Run", s>> ELSE NoCall,
                               <<"args", code, inputs, external_functions>>, "Absent", FALSE,
                               NotEntered(ret), 0)
        /\ UNCHANGED <<objs, runText, started, blobs, hist, attempts, bridgeVars>>

NextNew == New \/ Code

InitNew == ProtoIdle /\ BridgeInitIdle

SpecNew == InitNew /\ [][NextNew]_vars

-----------------------------------------------------------------------------
(* parse_limits_hash on its own: a hash is drawn and parsed.  Each of the   *)
(* five keys is absent, or present with nil, with a value that converts,   *)
(* or with one that does not.                                              *)

Absent == <<"absent">>
CountValues == {Absent, RNil, RInt(One), RInt(Five), RInt(MinusOne), RStr(ChA)}
SecondsValues == {Absent, RNil, RFloat("1.5"), RInt(One), RFloat("-1.5"), RFloat("NaN"), RStr(ChA)}
LimitKeys == <<KeyMaxAllocations, KeyMaxDuration, KeyMaxMemory, KeyGcInterval, KeyMaxRecursionDepth>>

\* The hash with the keys whose value is not Absent, in the order of LimitKeys.
HashOf(values) ==
    LET present == SelectSeq(<<1, 2, 3, 4, 5>>, LAMBDA i : values[i] # Absent)
    IN  [j \in 1..Len(present) |-> <<RSym(LimitKeys[present[j]]), values[present[j]]>>]

LimitInputs ==
    {HashOf(<<a, d, m, g, r>>) :
        a \in CountValues, d \in SecondsValues, m \in {Absent, RNil, RInt(Five)},
        g \in {Absent, RInt(One)}, r \in {Absent, RNil, RInt(One), RStr(ChA)}}
    \cup {<<<<RStr(KeyMaxAllocations), RInt(One)>>>>}

InitLimits ==
    /\ ProtoIdle
    /\ bdir = "limits"
    /\ bin \in LimitInputs
    /\ bthread = LoaderThread
    /\ bmid = BridgeIdle
    /\ bout = BridgeIdle
    /\ bstage = 0

ParseLimits ==
    /\ bdir = "limits"
    /\ bstage = 0
    /\ bmid' = parse_limits_hash(bin)
    /\ bstage' = 1
    /\ UNCHANGED <<bdir, bin, bout, bthread, protoVars>>

SpecLimits == InitLimits /\ [][ParseLimits]_vars

-----------------------------------------------------------------------------
(* The value bridge on its own: a value is drawn, converted, and the       *)
(* result converted back.                                                  *)

BridgeInit ==
    /\ ProtoIdle
    /\ \/ bdir = "host" /\ bin \in HostInputs
       \/ bdir = "monty" /\ bin \in MontyInputs
    /\ bthread \in Threads
    /\ bmid = BridgeIdle
    /\ bout = BridgeIdle
    /\ bstage = 0

BridgeNext == BridgeFirst \/ BridgeSecond

SpecBridge == BridgeInit /\ [][BridgeNext]_vars


-----------------------------------------------------------------------------
(* Properties of the session and of the interruptible run.                 *)

SessionOps ==
    {"Run.code", "Run.run", "Run.run_with_limits", "Run.run_capturing",
     "Run.run_capturing_with_limits", "Run.start", "Run.dump"}
BorrowingOps == SessionOps \ {"Run.start"}
LimitOps == {"Run.run_with_limits", "Run.run_capturing_with_limits"}
CapturingOps == {"Run.run_capturing", "Run.run_capturing_with_limits"}
ResumeOps == {"FunctionCall.resume", "FunctionCall.resume_with_error", "PendingFutures.resume"}
StepOps == ResumeOps \cup {"Run.start"}

FailsWith(ret, class) == IsErr(ret) /\ ErrClass(ret) = class

\* C1: once start has been called on a session, every later start, code,
\* dump and blocking run on that session fails with ConsumedError.
C1_ConsumedAfterStart ==
    (last.op \in SessionOps /\ last.was_started)
        => FailsWith(last.ret, "Monty::ConsumedError")

\* C2: a FunctionCall or PendingFutures is resumed at most once: a resume or
\* resume_with_error on an object whose cell was already emptied fails with
\* ConsumedError and does not enter the engine, so the engine is entered
\* from each object at most once.
C2_ResumeOnce ==
    /\ (last.op \in ResumeOps /\ last.pre = "None")
            => (FailsWith(last.ret, "Monty::ConsumedError") /\ ~last.entered)
    /\ \A i \in 1..Len(objs) : objs[i].entries <= 1

\* C3: the session cell changes only by start and only from Some (Fresh) to
\* None (Consumed): code, dump and the blocking runs leave it as it is
\* whether they succeed or fail, and a Consumed session never becomes Fresh.
C3_OnlyStartConsumes ==
    [][\A s \in Sessions :
          /\ inner[s] = "None" => inner'[s] = "None"
          /\ inner'[s] # inner[s] =>
                /\ inner[s] = "Some"
                /\ inner'[s] = "None"
                /\ last'.op = "Run.start"
                /\ last'.target = <<"Run", s>>
          /\ (last'.op \in BorrowingOps /\ last'.target = <<"Run", s>>) =>
                inner'[s] = inner[s]]_vars

\* A blocking run entered the engine, failed, and the session is still Fresh.
C3_Witness ==
    /\ last.op = "Run.run_capturing_with_limits"
    /\ last.entered
    /\ IsErr(last.ret)
    /\ inner[last.target[2]] = "Some"

IsBreach(exc) == exc # NoCall /\ exc[2][1] = "limit"

\* C4: a blocking run under limits that exceeds a ceiling fails with
\* ResourceError, whose message names the dimension, the limit and the
\* observed value, and never with the general error class.
C4_BreachIsResourceError ==
    (last.op \in LimitOps /\ IsBreach(last.exc))
        => /\ FailsWith(last.ret, "Monty::ResourceError")
           /\ last.ret[3] = <<"limit", "Allocation", last.exc[2][3], last.exc[2][4]>>

\* C5, as claimed: every step of an interruptible run (start and each
\* resume) executes under a governor with the host's ceilings.
C5_StepsUnderGovernor ==
    (last.op \in StepOps /\ last.entered) => last.tracker[1] = "LimitedTracker"

\* C5, amended: start takes only the inputs; its first step and every
\* resume step execute under NoLimitTracker, every paused run carries
\* NoLimitTracker, and no step fails because of a ceiling.
C5_StepsUnlimited ==
    /\ (last.op \in StepOps /\ last.entered)
            => (last.tracker = NoLimitTracker /\ ~IsBreach(last.exc))
    /\ \A i \in 1..Len(objs) :
            objs[i].o.state # NoneOpt => objs[i].o.state[2].tracker = NoLimitTracker

\* A paused run that has allocated twice was resumed and the step succeeded.
C5_Witness ==
    /\ last.op = "FunctionCall.resume"
    /\ last.entered
    /\ IsOk(last.ret)
    /\ \E i \in 1..Len(objs) : objs[i].o.state # NoneOpt /\ objs[i].o.state[2].allocs >= 2

RECURSIVE DeliveredFrom(_, _)
DeliveredFrom(s, i) ==
    IF i > Len(objs) THEN <<>>
    ELSE (IF objs[i].chain = s THEN objs[i].o.output ELSE <<>>) \o DeliveredFrom(s, i + 1)

\* The outputs of the progress objects of session s's run, in order.
Delivered(s) == DeliveredFrom(s, 1)

\* C6: the outputs of the suspensions returned so far, in order, make up
\* exactly the text the run has printed so far.
C6_AllTextDelivered ==
    \A s \in Sessions : Delivered(s) = runText[s].all

\* What the code keeps of C6: the outputs of the suspensions returned so
\* far, in order, make up the text printed by the steps that returned a
\* suspension; the text printed by a step that ended in an error is on no
\* suspension, and after such a step no suspension of the run can be resumed.
TextOfReturnedSteps ==
    \A s \in Sessions :
        /\ runText[s].all = Delivered(s) \o runText[s].lost
        /\ runText[s].lost # <<>> =>
              \A i \in 1..Len(objs) : objs[i].chain = s => objs[i].o.state = NoneOpt

\* Two suspensions of one run both carry text.
TwoOutputs ==
    \E i, j \in 1..Len(objs) :
        /\ i < j
        /\ objs[i].chain = objs[j].chain
        /\ objs[i].o.output # <<>>
        /\ objs[j].o.output # <<>>

\* What an error carries besides its class and message: magnus::Error::new
\* takes a class and a message, nothing else.
AttachedOutput(ret) == IF Len(ret) > 3 THEN ret[4] ELSE <<>>

\* C7: when a capturing blocking run fails after the program has printed,
\* the text printed before the failure is attached to the failure.
C7_OutputAttachedToFailure ==
    (last.op \in CapturingOps /\ IsErr(last.ret) /\ last.printed # <<>>)
        => AttachedOutput(last.ret) = last.printed

\* The entries of a batch, when every entry is a [call_id, value] pair.
IsPair(entry) == entry[1] = "Array" /\ Len(entry[2]) = 2 /\ IsOk(U32TryConvert(entry[2][1]))
IsBatch(results) == \A k \in 1..Len(results) : IsPair(results[k])
Convertible(value) == IsOk(ruby_to_monty(value))

-----------------------------------------------------------------------------
(* Properties of the value bridge.                                         *)

RECURSIVE HasSymbol(_)
HasSymbol(val) ==
    CASE val[1] = "Symbol" -> TRUE
      [] val[1] = "Array" -> \E i \in 1..Len(val[2]) : HasSymbol(val[2][i])
      [] val[1] = "Hash" ->
            \E i \in 1..Len(val[2]) : HasSymbol(val[2][i][1]) \/ HasSymbol(val[2][i][2])
      [] OTHER -> FALSE

RECURSIVE HasNaN(_)
HasNaN(val) ==
    CASE val[1] = "Float" -> val[2] = "NaN"
      [] val[1] = "Array" -> \E i \in 1..Len(val[2]) : HasNaN(val[2][i])
      [] val[1] = "Hash" ->
            \E i \in 1..Len(val[2]) : HasNaN(val[2][i][1]) \/ HasNaN(val[2][i][2])
      [] OTHER -> FALSE

\* a == b in the host, for b a value built afresh: NaN equals nothing.
RubyEqual(a, b) == HostEq(a, b) /\ ~HasNaN(a)

\* The values the claim names: nil, true, false, integers, floats, strings,
\* symbols, and arrays and hashes of these.
RECURSIVE OfNamedKinds(_)
OfNamedKinds(val) ==
    CASE val[1] = "Array" -> \A i \in 1..Len(val[2]) : OfNamedKinds(val[2][i])
      [] val[1] = "Hash" ->
            \A i \in 1..Len(val[2]) : OfNamedKinds(val[2][i][1]) /\ OfNamedKinds(val[2][i][2])
      [] OTHER -> val[1] # "Object"

LossyTags == {"Cycle", "Repr", "Type", "BuiltinFunction"}
PlainTags == {"None", "Bool", "Int", "BigInt", "Float", "String", "List", "Dict"}

\* The values a MontyObject holds directly.
Children(v) ==
    CASE v[1] \in {"List", "Tuple", "Set", "FrozenSet"} -> {v[2][i] : i \in 1..Len(v[2])}
      [] v[1] = "NamedTuple" -> {v[3][i] : i \in 1..Len(v[3])}
      [] v[1] = "Dict" -> UNION {{v[2][i][1], v[2][i][2]} : i \in 1..Len(v[2])}
      [] v[1] = "Dataclass" -> UNION {{v[3][i][1], v[3][i][2]} : i \in 1..Len(v[3])}
      [] OTHER -> {}

RECURSIVE Lossy(_)
Lossy(v) == v[1] \in LossyTags \/ \E c \in Children(v) : Lossy(c)

RECURSIVE Plain(_)
Plain(v) ==
    /\ v[1] \in PlainTags
    /\ v[1] = "BigInt" => ~FitsI64(v[2])
    /\ v[1] = "Float" => v[2] # "NaN"
    /\ \A c \in Children(v) : Plain(c)

\* C10, as claimed: for every MontyObject v that holds no Cycle, Repr, Type
\* or BuiltinFunction, ruby_to_monty(monty_to_ruby(v)) succeeds and is v.
C10_MontyRoundTrip ==
    (bdir = "monty" /\ ~Lossy(bin) /\ bstage >= 1) =>
        /\ IsOk(bmid)
        /\ bstage = 2 => bout = Ok(bin)

\* C10, amended: for every MontyObject v built only from None, Bool, Int,
\* BigInt outside the signed 64-bit range, Float but NaN, String, List and Dict,
\* ruby_to_monty(monty_to_ruby(v)) succeeds and is v.  The other variants
\* do not come back: Tuple, Set and FrozenSet return as List, NamedTuple
\* and Dataclass as Dict, Path and Ellipsis as String, Bytes as String or
\* not at all, a BigInt inside the 64-bit range as Int, and an Exception
\* is not converted.
C10_MontyRoundTripPlain ==
    (bdir = "monty" /\ bstage >= 1) =>
        /\ Plain(bin) => (IsOk(bmid) /\ (bstage = 2 => bout = Ok(bin)))
        /\ bin[1] = "Exception" => IsErr(bmid)
        /\ (bstage = 2 /\ IsOk(bout)) =>
              /\ bin[1] \in {"Tuple", "Set", "FrozenSet"} => bout[2][1] = "List"
              /\ bin[1] \in {"NamedTuple", "Dataclass"} => bout[2][1] = "Dict"
              /\ bin[1] \in {"Path", "Ellipsis", "Bytes"} => bout[2][1] = "String"
              /\ (bin[1] = "BigInt" /\ FitsI64(bin[2])) => bout[2] = MInt(bin[2])
        /\ (bstage = 2 /\ bin[1] \in {"Path", "Ellipsis"}) => IsOk(bout)

\* A Dict of two entries built from the plain variants has made the round trip.
C10_Witness ==
    /\ bdir = "monty"
    /\ bstage = 2
    /\ bin[1] = "Dict"
    /\ Plain(bin)
    /\ Len(bin[2]) = 2

-----------------------------------------------------------------------------
(* Properties of a session and its copy.                                   *)

Live == {s \in Sessions : inner[s] # "Absent"}

SameCalls(a, b, k) == \A j \in 1..k : hist[a][j].call = hist[b][j].call

Steps(p) == SelectSeq(Programs[p], LAMBDA ins : ins[1] # "print")
CallAndReturn(p) ==
    /\ Len(Steps(p)) = 2
    /\ Steps(p)[1][1] = "call"
    /\ Steps(p)[2][1] = "return_acc"

\* Entry k is the first call of its kind on its object.
First(s, k) ==
    ~\E j \in 1..(k - 1) :
        /\ hist[s][j].call[3] = hist[s][k].call[3]
        /\ hist[s][j].call[1] = hist[s][k].call[1]

\* The object that entry k returned, and what Complete.value gave for it later.
Returned(s, k) == hist[s][k].result[2][1]
ValuesOf(s, k) ==
    {hist[s][m].result[1] : m \in {m \in (k + 1)..Len(hist[s]) :
        /\ hist[s][m].call[1] = "Complete.value"
        /\ hist[s][m].call[3] = hist[s][k].new
        /\ First(s, m)}}

\* start of such a program returns a FunctionCall with the name and the
\* positional arguments of the call, in order; only a resume returns a Complete.
CallIsReported(s) ==
    \A k \in 1..Len(hist[s]) :
        LET e == hist[s][k]
        IN  /\ (e.call[1] = "Run.start" /\ IsOk(e.result[1])) =>
                   /\ e.new # 0
                   /\ Returned(s, k).kind = "FunctionCall"
                   /\ Returned(s, k).function_name = Steps(prog[s])[1][2]
                   /\ LET given == Steps(prog[s])[1][3]
                      IN  FunctionCall_args(e.call[2], Returned(s, k).args)
                             = Ok(RAry([i \in 1..Len(given) |-> monty_to_ruby(e.call[2], given[i])[2]]))
            /\ (e.new # 0 /\ Returned(s, k).kind = "Complete") => e.call[1] = "FunctionCall.resume"

-----------------------------------------------------------------------------
(* Exception values on their way to the host.                              *)

BlockingOps ==
    {"Run.run", "Run.run_with_limits", "Run.run_capturing", "Run.run_capturing_with_limits"}

RECURSIVE ExceptionsIn(_)
ExceptionsIn(v) ==
    IF v[1] = "Exception" THEN {v} ELSE UNION {ExceptionsIn(c) : c \in Children(v)}

\* The message of an Exception value, or its kind when it has none.
MessageOf(e) == IF e[3] # NoneOpt THEN <<"chars", e[3][2]>> ELSE <<"debug", e[2]>>

\* ret is an error that carries the message of an Exception held in v.
Signals(ret, v) == IsErr(ret) /\ ret[3] \in {MessageOf(e) : e \in ExceptionsIn(v)}

\* C13: whenever a blocking run, Complete.value, FunctionCall.args or
\* FunctionCall.kwargs converts a value that is or holds an Exception, the
\* call fails with an error carrying that Exception's message, or its kind
\* when it has no message; the value is not returned as data.
C13_ExceptionsAreErrors ==
    [][/\ (last'.op \in BlockingOps /\ last'.engine # NoneOpt
            /\ ExceptionsIn(last'.engine[2][1]) # {})
           => Signals(last'.ret, last'.engine[2][1])
       /\ (last'.op = "Complete.value" /\ objs[last'.target[2]].o.result # NoneOpt
            /\ ExceptionsIn(objs[last'.target[2]].o.result[2]) # {})
           => Signals(last'.ret, objs[last'.target[2]].o.result[2])
       /\ (last'.op = "FunctionCall.args"
            /\ ExceptionsIn(MList(objs[last'.target[2]].o.args)) # {})
           => Signals(last'.ret, MList(objs[last'.target[2]].o.args))
       /\ (last'.op = "FunctionCall.kwargs"
            /\ ExceptionsIn(MDict(objs[last'.target[2]].o.kwargs)) # {})
           => Signals(last'.ret, MDict(objs[last'.target[2]].o.kwargs))
      ]_vars

\* Complete.value was called on a result that holds an Exception, and failed.
C13_Witness ==
    /\ last.op = "Complete.value"
    /\ last.pre = "Some"
    /\ IsErr(last.ret)
    /\ last.ret[3] = <<"chars", ChB>>

-----------------------------------------------------------------------------
(* Creation failures.                                                      *)

\* The names convert and the engine rejects the source as not parsing.
FailsOnSyntax(args) ==
    /\ IsOk(names_of(args[3])) /\ IsOk(names_of(args[4]))
    /\ args[2] = Malformed

\* C14: creation that fails on malformed source fails with SyntaxError,
\* creation that fails for any other reason fails with the general error
\* class Monty::Error, and SyntaxError, ResourceError and ConsumedError are
\* subclasses of Monty::Error.
C14_CreationErrors ==
    /\ (last.op = "Run.new" /\ IsErr(last.ret)) =>
            IF FailsOnSyntax(last.args)
            THEN ErrClass(last.ret) = "Monty::SyntaxError"
            ELSE ErrClass(last.ret) = "Monty::Error"
    /\ \A c \in {"Monty::SyntaxError", "Monty::ResourceError", "Monty::ConsumedError"} :
            Superclass(c) = "Monty::Error"

-----------------------------------------------------------------------------
(* Integers across the bridge.                                             *)

\* The integers drawn that lie in -2^63 .. 2^63-1, and those that lie beyond.
InRange == SmallInts \cup EdgeInts
Beyond == BigInts

\* C15: ruby_to_monty of a host Integer n is Int(n) when n lies in the
\* signed 64-bit range and BigInt(n) otherwise, and monty_to_ruby of Int(n)
\* and of BigInt(n) is the host Integer n, digit for digit.
C15_IntegersExact ==
    /\ (bdir = "host" /\ bin[1] = "Integer" /\ bstage >= 1) =>
            /\ bin[2] \in InRange => bmid = Ok(MInt(bin[2]))
            /\ bin[2] \in Beyond => bmid = Ok(MBigInt(bin[2]))
    /\ (bdir = "host" /\ bin[1] = "Integer" /\ bstage = 2) => bout = Ok(RInt(bin[2]))
    /\ (bdir = "monty" /\ bin[1] \in {"Int", "BigInt"} /\ bstage >= 1) => bmid = Ok(RInt(bin[2]))

\* 2^63 went over as a BigInt and came back.
C15_Witness ==
    /\ bdir = "host"
    /\ bin = RInt(I64MaxPlus1)
    /\ bstage = 2
    /\ bmid = Ok(MBigInt(I64MaxPlus1))
    /\ IsOk(bout)

-----------------------------------------------------------------------------
(* The limits hash.                                                        *)

\* What the hash supplies for a key: nothing when the key is absent or nil.
Supplied(hash, key) == aref(hash, RSym(key))

\* The dimension a present, non-nil value stands for.
AsCount(val) == IF is_nil(val) THEN NoneOpt ELSE Some(val[2][2])
AsSeconds(val) ==
    IF is_nil(val) THEN NoneOpt
    ELSE Some(IF val[1] = "Integer" THEN F64OfInteger(val[2]) ELSE F64OfFloat(val[2]))

LimitsAsSupplied(hash) ==
    <<AsCount(Supplied(hash, KeyMaxAllocations)), AsSeconds(Supplied(hash, KeyMaxDuration)),
      AsCount(Supplied(hash, KeyMaxMemory)), AsCount(Supplied(hash, KeyGcInterval)),
      AsCount(Supplied(hash, KeyMaxRecursionDepth))>>

\* C16: parse_limits_hash succeeds on every hash over the five keys and
\* sets exactly the dimensions whose key is present with a non-nil value,
\* each to the value supplied; nil counts as absent.
C16_LimitsAsSupplied ==
    (bdir = "limits" /\ bstage = 1) =>
        /\ IsOk(bmid)
        /\ bmid[2] = LimitsAsSupplied(bin)

\* Every value supplied is one its dimension takes: a non-negative Integer
\* of machine size for the counts, a Float or Integer that is not negative
\* and not NaN for the duration.
Takes(hash) ==
    /\ \A key \in {KeyMaxAllocations, KeyMaxMemory, KeyGcInterval, KeyMaxRecursionDepth} :
          LET val == Supplied(hash, key)
          IN  ~is_nil(val) => (val[1] = "Integer" /\ ~val[2][1])
    /\ LET val == Supplied(hash, KeyMaxDuration)
       IN  ~is_nil(val) =>
              \/ val[1] = "Integer" /\ ~val[2][1]
              \/ val[1] = "Float" /\ val[2] \notin NegativeFloats \cup {"NaN"}

\* When every value supplied is one its dimension takes, the dimensions are
\* set as C16 says; otherwise the call fails and no limits are built.
LimitsOfValuesTaken ==
    (bdir = "limits" /\ bstage = 1) =>
        IF Takes(bin) THEN bmid = Ok(LimitsAsSupplied(bin)) ELSE IsErr(bmid)

-----------------------------------------------------------------------------
(* Sessions side by side.                                                  *)

\* The session a call was made on: the Run itself, or the Run the progress
\* object descends from; 0 when a load built nothing.
Actor(l, os) ==
    CASE l.target[1] = "Run" -> l.target[2]
      [] l.target[1] = "Obj" -> os[l.target[2]].chain
      [] OTHER -> 0

\* No call on one session touches another one.
OthersUntouched ==
    \A o \in Sessions \ {Actor(last', objs)} :
        /\ inner'[o] = inner[o]
        /\ started'[o] = started[o]
        /\ runText'[o] = runText[o]
        /\ \A i \in 1..Len(objs) : objs[i].chain = o => objs'[i] = objs[i]

\* Entry k of session s is a blocking run made while the session was Fresh.
FreshRun(s, k) ==
    /\ hist[s][k].call[1] \in BlockingOps
    /\ ~\E j \in 1..(k - 1) : hist[s][j].call[1] = "Run.start"

\* A blocking run repeated on a Fresh session returns what it returned
\* before: no text and no count is carried over from an earlier run.
RunsStartAfresh ==
    \A s \in Live :
        \A j, k \in 1..Len(hist[s]) :
            (j < k /\ FreshRun(s, k) /\ hist[s][j].call = hist[s][k].call)
                => hist[s][j].result = hist[s][k].result

\* C17: a call on a session, or on a progress object that descends from it,
\* leaves the cell, the started flag, the collected text and the progress
\* objects of every other session as they were (a session built by load
\* from the bytes of another included), and every blocking run starts with
\* no text collected and no allocation counted.
C17_SessionsIndependent == [][OthersUntouched /\ RunsStartAfresh']_vars

\* Both sessions were started; the suspension of one has been resumed, the
\* suspension of the other is still there.
C17_Witness ==
    \E i, j \in 1..Len(objs) :
        /\ objs[i].chain # objs[j].chain
        /\ objs[i].o.kind = "FunctionCall" /\ objs[j].o.kind = "FunctionCall"
        /\ objs[i].o.state = NoneOpt /\ objs[j].o.state # NoneOpt
        /\ last.target = <<"Obj", i>>
        /\ last.entered

-----------------------------------------------------------------------------
(* Resume attempts racing for one snapshot.                                *)

\* The threads that hold the snapshot of object i, about to enter the engine.
Holders(i) == {t \in Threads : attempts[t] # Idle /\ attempts[t].obj = i}

\* At most one attempt obtains the snapshot of an object, and the engine is
\* entered from it at most once.
AtMostOneHolder ==
    \A i \in 1..Len(objs) :
        /\ Cardinality(Holders(i)) + objs[i].entries <= 1
        /\ Holders(i) # {} => objs[i].o.state = NoneOpt

\* C18: whatever the interleaving of resume and resume_with_error attempts
\* of several threads on one suspension, at most one attempt obtains the
\* snapshot and enters the engine, and every other attempt fails with
\* ConsumedError.
C18_OneAttemptWins ==
    /\ AtMostOneHolder
    /\ (last.op \in ResumeOps /\ last.pre = "None")
           => (~last.entered /\ FailsWith(last.ret, "Monty::ConsumedError"))

-----------------------------------------------------------------------------
(* Calls that fail and consume all the same.                               *)

\* No start on session s has returned a progress object: every start so far failed.
NoStartSucceeded(s) == ~\E i \in 1..Len(objs) : objs[i].chain = s

\* A start that fails leaves the cell empty, and no later start enters the engine.
FailedStartConsumes ==
    /\ (last.op = "Run.start" /\ IsErr(last.ret)) => inner[last.target[2]] = "None"
    /\ (last.op = "Run.start" /\ last.was_started) => (IsErr(last.ret) /\ ~last.entered)

\* C19: a start that fails, on an input that does not convert or in the
\* engine, leaves the session Consumed, and a second start on it fails
\* with ConsumedError.
C19_FailedStartConsumes ==
    /\ FailedStartConsumes
    /\ (last.op = "Run.start" /\ last.was_started /\ NoStartSucceeded(last.target[2]))
           => FailsWith(last.ret, "Monty::ConsumedError")

\* A resume that fails before the engine leaves the cell empty, and no later
\* resume on the object enters the engine.
FailedResumeConsumes ==
    /\ (last.op \in ResumeOps /\ ~last.entered) => objs[last.target[2]].o.state = NoneOpt
    /\ (last.op \in ResumeOps /\ last.pre = "None") => (IsErr(last.ret) /\ ~last.entered)

\* C20: a resume that fails before the engine is entered (a value that does
\* not convert, an entry that is no [call_id, value] pair) leaves the
\* suspension consumed, and a later resume on it fails with ConsumedError.
C20_FailedResumeConsumes ==
    /\ FailedResumeConsumes
    /\ (last.op \in ResumeOps /\ last.pre = "None" /\ objs[last.target[2]].entries = 0)
           => FailsWith(last.ret, "Monty::ConsumedError")

-----------------------------------------------------------------------------
(* The result of a Completion.                                             *)

\* The object the call recorded in last' was made on.
Target == last'.target[2]

\* A call of value empties the result cell whatever the conversion gives,
\* returns the conversion of what the cell held, and fails when it held nothing.
ValueTakes ==
    last'.op = "Complete.value" =>
        /\ objs'[Target].o.result = NoneOpt
        /\ objs[Target].o.result # NoneOpt
               => last'.ret = monty_to_ruby(last'.thread, objs[Target].o.result[2])
        /\ objs[Target].o.result = NoneOpt => (IsErr(last'.ret) /\ ~last'.entered)

\* No step changes the output text of an object, and output returns it.
OutputKept ==
    /\ \A i \in 1..Len(objs) : objs'[i].o.output = objs[i].o.output
    /\ last'.op = "Complete.output" =>
           (last'.ret = Ok(RStr(objs[Target].o.output)) /\ objs' = objs)

ValueTakenOnce == [][ValueTakes /\ OutputKept]_vars

\* C21: the first call of Complete.value takes the result out of its cell,
\* whether or not the conversion succeeds; every later call of value on the
\* same Completion fails with ConsumedError; output returns the same text
\* before and after.
C21_ValueReadOnce ==
    [][/\ ValueTakes
       /\ OutputKept
       /\ (last'.op = "Complete.value" /\ objs[Target].o.result = NoneOpt)
              => FailsWith(last'.ret, "Monty::ConsumedError")]_vars

-----------------------------------------------------------------------------
(* The accessors of a suspension.                                          *)

FunctionCallAccessors ==
    {"FunctionCall.function_name", "FunctionCall.call_id", "FunctionCall.args",
     "FunctionCall.kwargs", "FunctionCall.output"}
PendingFuturesAccessors == {"PendingFutures.pending_call_ids", "PendingFutures.output"}
SuspensionAccessors == FunctionCallAccessors \cup PendingFuturesAccessors

AccessorsOf(kind) ==
    CASE kind = "FunctionCall" -> FunctionCallAccessors
      [] kind = "PendingFutures" -> PendingFuturesAccessors
      [] OTHER -> {}

\* What accessor op gives on thread t for the object o.
Read(op, t, o) ==
    CASE op = "FunctionCall.function_name" -> FunctionCall_function_name(o.function_name)
      [] op = "FunctionCall.call_id" -> FunctionCall_call_id(o.call_id)
      [] op = "FunctionCall.args" -> FunctionCall_args(t, o.args)
      [] op = "FunctionCall.kwargs" -> FunctionCall_kwargs(t, o.kwargs)
      [] op = "FunctionCall.output" -> FunctionCall_output(o.output)
      [] op = "PendingFutures.pending_call_ids" ->
            PendingFutures_pending_call_ids(o.pending_call_ids)
      [] op = "PendingFutures.output" -> PendingFutures_output(o.output)

\* C22: a step, a resume or a failed resume among them, leaves what every
\* accessor of every suspension gives as it was and changes nothing of the
\* suspension it is made on but the continuation cell; an accessor returns
\* that value with the cell empty as with the cell full, leaves the
\* suspension as it is, and never fails as consumed.
C22_AccessorsUnchanged ==
    [][/\ \A i \in 1..Len(objs) : \A t \in Threads : \A op \in AccessorsOf(objs[i].o.kind) :
              Read(op, t, objs'[i].o) = Read(op, t, objs[i].o)
       /\ last'.op \in ResumeOps =>
              objs'[Target].o = [objs[Target].o EXCEPT !.state = NoneOpt]
       /\ last'.op \in SuspensionAccessors =>
              /\ last'.ret = Read(last'.op, last'.thread, objs[Target].o)
              /\ objs' = objs
              /\ ~FailsWith(last'.ret, "Monty::ConsumedError")
              /\ last'.ret # consumed_error(last'.thread)]_vars

\* An accessor read after a resume that entered the engine, and one after a
\* resume that failed before it: each returns a value, the cell being empty.
C22_Witness ==
    /\ last.op \in {"FunctionCall.args", "PendingFutures.pending_call_ids"}
    /\ objs[last.target[2]].o.state = NoneOpt
    /\ IsOk(last.ret)
    /\ last.ret[2][2] # <<>>

-----------------------------------------------------------------------------
(* Platform calls.                                                         *)

\* The platform functions the programs call.
OsFunctions ==
    {Programs[p][k][2] : <<p, k>> \in
        {pk \in (1..Len(Programs)) \X (1..4) :
            pk[2] <= Len(Programs[pk[1]]) /\ Programs[pk[1]][pk[2]][1] = "oscall"}}

\* Object i is a platform call as the host sees it.
IsOsCall(i) ==
    /\ objs[i].o.kind = "FunctionCall"
    /\ \E f \in OsFunctions : objs[i].o.function_name = "os:" \o f

\* The step that made object last.new was handed an OsCall by the engine.
OsCallYielded ==
    /\ last.new # 0
    /\ last.engine # NoneOpt
    /\ last.engine[2][1][1] = "OsCall"

\* The one-shot rule of FunctionCall.resume and resume_with_error, read off
\* the last call when it was made on object i.
OneShot(i) ==
    /\ objs[i].entries <= 1
    /\ (last.op \in {"FunctionCall.resume", "FunctionCall.resume_with_error"}
           /\ last.target = <<"Obj", i>>)
          => /\ objs[i].o.state = NoneOpt
             /\ last.pre = "None" => (~last.entered /\ last.ret = consumed_error(last.thread))
             /\ (last.pre = "Some" /\ last.op = "FunctionCall.resume_with_error")
                    => (last.entered /\ last.received[1] = "Error")
             /\ (last.pre = "Some" /\ last.op = "FunctionCall.resume")
                    => LET v == ruby_to_monty(last.args[2])
                       IN  IF IsErr(v) THEN ~last.entered /\ last.ret = v
                           ELSE last.entered /\ last.received = <<"Return", v[2]>>

\* C23: a platform call the engine yields reaches the host as a FunctionCall
\* named "os:" and the engine's name for the function, with the engine's
\* args, kwargs, call id and continuation as they were; it is resumed by
\* resume and resume_with_error under the one-shot rule of every
\* FunctionCall.
C23_PlatformCallsAsExternalCalls ==
    /\ OsCallYielded =>
           LET progress == last.engine[2][1]
               o == objs[last.new].o
           IN  /\ o.kind = "FunctionCall"
               /\ o.function_name = "os:" \o progress[2]
               /\ o.args = progress[3]
               /\ o.kwargs = progress[4]
               /\ o.call_id = progress[5]
               /\ o.state = Some(progress[6])
               /\ o.output = last.engine[2][2]
    /\ \A i \in 1..Len(objs) : objs[i].o.kind = "FunctionCall" => OneShot(i)

\* A platform call was delivered and the host has resumed it: the engine
\* ran on from it and yielded the next call.
C23_Witness ==
    /\ last.op = "FunctionCall.resume"
    /\ last.target[1] = "Obj"
    /\ IsOsCall(last.target[2])
    /\ objs[last.target[2]].o.kwargs # <<>>
    /\ last.pre = "Some"
    /\ last.entered
    /\ last.new # 0

-----------------------------------------------------------------------------
(* Associative mappings across the bridge.                                 *)

\* The value converted is a mapping and its conversion succeeded.
MappingConverted ==
    /\ bstage >= 1
    /\ IsOk(bmid)
    /\ \/ bdir = "host" /\ bin[1] = "Hash"
       \/ bdir = "monty" /\ bin[1] = "Dict"

\* The conversion of one key or value of the mapping.
Converted(v) == IF bdir = "host" THEN ruby_to_monty(v) ELSE monty_to_ruby(bthread, v)

\* Two keys of the other side are one key there.
SameKey(a, b) == IF bdir = "host" THEN a = b ELSE HostEq(a, b)

\* The pairs of the result are the pairs of the source, converted, in order.
EntriesInOrder ==
    /\ Len(bmid[2][2]) = Len(bin[2])
    /\ \A i \in 1..Len(bin[2]) :
          /\ i <= Len(bmid[2][2])
          /\ Ok(bmid[2][2][i][1]) = Converted(bin[2][i][1])
          /\ Ok(bmid[2][2][i][2]) = Converted(bin[2][i][2])

\* No two keys of the source are converted to one key.
KeysKeptApart ==
    \A i, j \in 1..Len(bin[2]) :
        i # j => ~SameKey(Converted(bin[2][i][1])[2], Converted(bin[2][j][1])[2])

\* C24: a mapping converted in either direction keeps its entries: as many
\* as the source has, in the source's key order, each key and value
\* converted, and no two source keys become one key on the other side.
C24_MappingEntriesPreserved ==
    MappingConverted =>
        /\ bmid[2][1] = (IF bdir = "host" THEN "Dict" ELSE "Hash")
        /\ EntriesInOrder
        /\ KeysKeptApart

\* What holds: the conversion is a mapping, no longer than the source; when
\* the converted keys are apart its entries are the source's, converted, in
\* order, and from the host they are so in every case (with a key twice
\* when two keys are converted to one).
MappingEntriesOfKeysApart ==
    MappingConverted =>
        /\ bmid[2][1] = (IF bdir = "host" THEN "Dict" ELSE "Hash")
        /\ Len(bmid[2][2]) <= Len(bin[2])
        /\ (KeysKeptApart \/ bdir = "host") => EntriesInOrder
        /\ (bdir = "monty" /\ ~KeysKeptApart) => Len(bmid[2][2]) < Len(bin[2])

-----------------------------------------------------------------------------
(* Booleans among the host's values.                                       *)

\* Values that look false or true and are no booleans.
LookAlikes ==
    {RInt(Zero), RInt(One), RStr(<<>>), RAry(<<>>), RHashOf(<<>>), RFloat("0.0")}

\* The variant a value of each class converts to.
OwnVariant(val) ==
    CASE val[1] = "NilClass" -> "None"
      [] val[1] \in {"TrueClass", "FalseClass"} -> "Bool"
      [] val[1] = "Integer" -> IF FitsI64(val[2]) THEN "Int" ELSE "BigInt"
      [] val[1] = "Float" -> "Float"
      [] val[1] \in {"String", "Symbol"} -> "String"
      [] val[1] = "Array" -> "List"
      [] val[1] = "Hash" -> "Dict"
      [] OTHER -> "none"

\* What holds: ruby_to_monty yields Bool exactly for the values whose class
\* answers TrueClass or FalseClass when asked its name; every value of a
\* supported class that converts, converts to its own variant.
BoolByClassName ==
    (bdir = "host" /\ bstage >= 1) =>
        /\ (IsOk(bmid) /\ bmid[2][1] = "Bool")
               <=> class_name(bin) \in {"TrueClass", "FalseClass"}
        /\ (IsOk(bmid) /\ bin[1] # "Object") => bmid[2][1] = OwnVariant(bin)
        /\ bin \in LookAlikes \cup {RNil, RTrue, RFalse} => IsOk(bmid)

\* C25: ruby_to_monty yields Bool only for true and false; nil converts to
\* None, and 0, 1, the empty string, the empty array and the empty hash
\* convert to their own variants.
C25_BoolOnlyForTrueAndFalse ==
    (bdir = "host" /\ bstage >= 1) =>
        /\ (IsOk(bmid) /\ bmid[2][1] = "Bool") => bin \in {RTrue, RFalse}
        /\ bin = RTrue => bmid = Ok(MBool(TRUE))
        /\ bin = RFalse => bmid = Ok(MBool(FALSE))
        /\ bin = RNil => bmid = Ok(MNone)
        /\ bin \in LookAlikes => (IsOk(bmid) /\ bmid[2][1] = OwnVariant(bin))

-----------------------------------------------------------------------------
(* Host values with no engine representation.                              *)

\* The value is, or holds at some depth, an object of no supported class.
RECURSIVE Unrepresentable(_)
Unrepresentable(val) ==
    CASE val[1] = "Array" -> \E i \in 1..Len(val[2]) : Unrepresentable(val[2][i])
      [] val[1] = "Hash" ->
            \E i \in 1..Len(val[2]) :
                Unrepresentable(val[2][i][1]) \/ Unrepresentable(val[2][i][2])
      [] OTHER -> val[1] = "Object"

\* The value is, or holds at some depth, a value no rule of ruby_to_monty applies to.
RECURSIVE NoRuleApplies(_)
NoRuleApplies(val) ==
    CASE val[1] = "Array" -> \E i \in 1..Len(val[2]) : NoRuleApplies(val[2][i])
      [] val[1] = "Hash" ->
            \E i \in 1..Len(val[2]) :
                NoRuleApplies(val[2][i][1]) \/ NoRuleApplies(val[2][i][2])
      [] OTHER -> val[1] = "Object" /\ detect_bool(val) = NoneOpt

ConvertingOps == BlockingOps \cup {"Run.start", "FunctionCall.resume"}

\* The host values the last call handed to ruby_to_monty.
Given == IF last.op = "FunctionCall.resume" THEN <<last.args[2]>> ELSE last.args[2]

\* The last call failed in the conversion: a type error, the engine not
\* entered, nothing printed, and the session of a blocking run still Fresh.
FailedConverting ==
    /\ FailsWith(last.ret, "TypeError")
    /\ ~last.entered
    /\ last.printed = <<>>
    /\ last.engine = NoneOpt
    /\ last.op \in BlockingOps => inner[last.target[2]] = "Some"

\* What holds: a value no rule applies to, at any depth, fails the call in
\* the conversion.
NoRuleFails ==
    (last.op \in ConvertingOps /\ last.pre = "Some"
        /\ \E k \in 1..Len(Given) : NoRuleApplies(Given[k]))
        => FailedConverting

\* C26: a host value with no engine representation, at the top level or
\* inside an array or hash, makes the whole conversion fail with a type
\* error; a blocking run given such an input fails before the engine runs
\* any of the program: nothing is printed and the session stays Fresh.
C26_UnsupportedInputFails ==
    (last.op \in ConvertingOps /\ last.pre = "Some"
        /\ \E k \in 1..Len(Given) : Unrepresentable(Given[k]))
        => FailedConverting

====
